---------------------------- MODULE Spec2Model ----------------------------
(***************************************************************************)
(* A model of the Tanmia scraper: the Email Recognizer, the Document       *)
(* Extractors, the Attachment Discoverer and Fetcher (scraper.py) and the  *)
(* Contact Consolidator with its fallback (analyzer.py).                   *)
(*                                                                         *)
(* Texts are TLA+ strings; a character is a string of length one.  The     *)
(* regular expressions of the source are written as sequences of items     *)
(* and run by a backtracking matcher with Python's greedy semantics.       *)
(***************************************************************************)
EXTENDS Integers, Sequences, FiniteSets, TLC

VARIABLES
    pc,         \* position of the modelled call: "start", "done" or "raised"; crawl: also the
                \* phase, and "observer_raised" when the error of the observer left the run
    posting,    \* analyzer: the PostingRecord handed to analyze_opportunity
    result,     \* analyzer: the AnalysisResult returned; consolidation: the list returned
    call,       \* analyzer: [ai_type, reply], the client asked for and what the model call comes to;
                \* consolidation: the two lists handed to it
    doc,        \* extractor: the file handed to the extractor
    parsed,     \* extractor / fetcher: the (text, emails) pair returned; recognizers: the sets returned
    page,       \* discoverer: the anchors of the detail page, in document order
    attached,   \* discoverer: the attachment list returned
    req,        \* fetcher: the file_type the download is asked for; discoverer: the parse_content toggle
    resp,       \* fetcher: how the server answers the download; discoverer: the answer and the file served
    http,       \* fetcher: the requests issued, whether the body was read, the extractors run;
                \* discoverer: the downloads requested; crawl: the delays and GETs, in order
    again,      \* consolidation: the result of consolidating a result a second time
    site,       \* crawl: what the site answers, per listing page and per posting URL
    run,        \* crawl: the locals of scrape_tanmia (page_num, all_urls, idx, results);
                \* application: the locals of the analysis loop
    reported,   \* crawl: the values handed to progress_callback, in order
    disk        \* extractor: the temporary files the call has left on disk

vars ==
    <<pc, posting, result, call, doc, parsed, page, attached, req, resp, http, again,
      site, run, reported, disk>>

None == "None"

----------------------------------------------------------------------------
(* Characters and strings                                                  *)

Ch(s, i) == SubSeq(s, i, i)

CharsOf(s) == {Ch(s, i) : i \in 1..Len(s)}

LOWER == "abcdefghijklmnopqrstuvwxyz"
UPPER == "ABCDEFGHIJKLMNOPQRSTUVWXYZ"
DIGITS == "0123456789"

\* The characters an email can hold, in code-point order.
ORDERED == "%+-.0123456789@ABCDEFGHIJKLMNOPQRSTUVWXYZ_abcdefghijklmnopqrstuvwxyz|"

\* The rank of a character by code point (ord(c) up to an increasing map).
Ranks == [c \in CharsOf(ORDERED) |-> CHOOSE i \in 1..Len(ORDERED) : Ch(ORDERED, i) = c]

CodePoint(c) == IF c \in DOMAIN Ranks THEN Ranks[c] ELSE 0

\* \w, \s and the bracket classes of the patterns.
WordClass == CharsOf(LOWER \o UPPER \o DIGITS \o "_")
SpaceClass == {" ", "\t", "\n", "\r", "\f"}
LocalClass == CharsOf(LOWER \o UPPER \o DIGITS \o "._%+-")
DomainClass == CharsOf(LOWER \o UPPER \o DIGITS \o ".-")
TldClass == CharsOf(UPPER \o "|" \o LOWER)
FilterLocalClass == WordClass \cup {".", "-", "+"}
FilterDomainClass == WordClass \cup {".", "-"}

ToLower == [c \in CharsOf(UPPER) |-> Ch(LOWER, CHOOSE i \in 1..Len(UPPER) : Ch(UPPER, i) = c)]
ToUpper == [c \in CharsOf(LOWER) |-> Ch(UPPER, CHOOSE i \in 1..Len(LOWER) : Ch(LOWER, i) = c)]

LowerChar(c) == IF c \in DOMAIN ToLower THEN ToLower[c] ELSE c
UpperChar(c) == IF c \in DOMAIN ToUpper THEN ToUpper[c] ELSE c

RECURSIVE LowerStr(_)
\* str.lower()
LowerStr(s) ==
    IF s = "" THEN "" ELSE LowerChar(Ch(s, 1)) \o LowerStr(SubSeq(s, 2, Len(s)))

RECURSIVE RemoveSpaces(_)
\* re.sub(r'\s+', '', s)
RemoveSpaces(s) ==
    IF s = "" THEN ""
    ELSE (IF Ch(s, 1) \in SpaceClass THEN "" ELSE Ch(s, 1))
         \o RemoveSpaces(SubSeq(s, 2, Len(s)))

RECURSIVE LStrip(_)
LStrip(s) ==
    IF s # "" /\ Ch(s, 1) \in SpaceClass THEN LStrip(SubSeq(s, 2, Len(s))) ELSE s

RECURSIVE RStrip(_)
RStrip(s) ==
    IF s # "" /\ Ch(s, Len(s)) \in SpaceClass
    THEN RStrip(SubSeq(s, 1, Len(s) - 1)) ELSE s

\* str.strip()
Strip(s) == RStrip(LStrip(s))

\* sub in s
Contains(s, sub) ==
    \E i \in 1..(Len(s) - Len(sub) + 1) : SubSeq(s, i, i + Len(sub) - 1) = sub

StartsWith(s, pre) == Len(pre) <= Len(s) /\ SubSeq(s, 1, Len(pre)) = pre

EndsWith(s, suf) ==
    Len(suf) <= Len(s) /\ SubSeq(s, Len(s) - Len(suf) + 1, Len(s)) = suf

\* s[:n]
Prefix(s, n) == SubSeq(s, 1, IF n < Len(s) THEN n ELSE Len(s))

RECURSIVE Rep(_, _)
\* s * n
Rep(s, n) ==
    IF n = 0 THEN ""
    ELSE LET h == Rep(s, n \div 2)
         IN  h \o h \o (IF n % 2 = 1 THEN s ELSE "")

RECURSIVE IntToStr(_)
\* str(n) for n >= 0
IntToStr(n) ==
    IF n < 10 THEN Ch(DIGITS, n + 1)
    ELSE IntToStr(n \div 10) \o Ch(DIGITS, (n % 10) + 1)

\* Python's order on str: by code point, a proper prefix first.
StrLess(a, b) ==
    \E i \in 1..(Len(b)) :
        /\ i <= Len(a) + 1
        /\ SubSeq(a, 1, i - 1) = SubSeq(b, 1, i - 1)
        /\ \/ i = Len(a) + 1
           \/ CodePoint(Ch(a, i)) < CodePoint(Ch(b, i))

RECURSIVE SortedList(_)
\* sorted(S) of a set of strings
SortedList(S) ==
    IF S = {} THEN <<>>
    ELSE LET m == CHOOSE x \in S : \A y \in S \ {x} : StrLess(x, y)
         IN  <<m>> \o SortedList(S \ {m})

Range(q) == {q[i] : i \in 1..Len(q)}

\* list(S) of a set: the iteration order of a set of str is not defined
\* (string hashing is randomised per process), so any order may come out.
ListsOf(S) == {q \in [1..Cardinality(S) -> S] : Range(q) = S}

----------------------------------------------------------------------------
(* Regular expressions                                                     *)

\* \b at the gap before position pos
WordBoundary(t, pos) ==
    LET before == pos > 1 /\ Ch(t, pos - 1) \in WordClass
        after == pos <= Len(t) /\ Ch(t, pos) \in WordClass
    IN  before # after

B == [k |-> "b"]
\* $ (without re.MULTILINE): the end, or just before a final newline
End == [k |-> "end"]
\* cls{min,} (greedy)
AtLeast(cls, n) == [k |-> "rep", cls |-> cls, min |-> n]
\* (?:a|b|...) over literal strings, tried in order
Lit(alts) == [k |-> "lit", alts |-> alts]

Fail == <<0>>

InClass(c, cls, ic) ==
    \/ c \in cls
    \/ ic /\ (LowerChar(c) \in cls \/ UpperChar(c) \in cls)

SameText(a, b, ic) == IF ic THEN LowerStr(a) = LowerStr(b) ELSE a = b

RECURSIVE RunLen(_, _, _, _)
\* the number of consecutive characters of the class from position pos on
RunLen(t, pos, cls, ic) ==
    IF pos <= Len(t) /\ InClass(Ch(t, pos), cls, ic)
    THEN 1 + RunLen(t, pos + 1, cls, ic)
    ELSE 0

RECURSIVE MatchFrom(_, _, _, _, _)
RECURSIVE TryRep(_, _, _, _, _, _)
RECURSIVE TryAlts(_, _, _, _, _, _)

\* The match of items k.. of the pattern at position pos: the position after
\* each item, or Fail.  Items are tried as Python's re tries them.
MatchFrom(t, pat, k, pos, ic) ==
    IF k > Len(pat) THEN <<>>
    ELSE IF pat[k].k = "b"
         THEN IF WordBoundary(t, pos)
              THEN LET r == MatchFrom(t, pat, k + 1, pos, ic)
                   IN  IF r = Fail THEN Fail ELSE <<pos>> \o r
              ELSE Fail
    ELSE IF pat[k].k = "end"
         THEN IF pos = Len(t) + 1 \/ (pos = Len(t) /\ Ch(t, pos) = "\n")
              THEN LET r == MatchFrom(t, pat, k + 1, pos, ic)
                   IN  IF r = Fail THEN Fail ELSE <<pos>> \o r
              ELSE Fail
    ELSE IF pat[k].k = "lit" THEN TryAlts(t, pat, k, pos, ic, 1)
    ELSE TryRep(t, pat, k, pos, ic, RunLen(t, pos, pat[k].cls, ic))

TryRep(t, pat, k, pos, ic, n) ==
    IF n < pat[k].min THEN Fail
    ELSE LET r == MatchFrom(t, pat, k + 1, pos + n, ic)
         IN  IF r # Fail THEN <<pos + n>> \o r
             ELSE TryRep(t, pat, k, pos, ic, n - 1)

TryAlts(t, pat, k, pos, ic, a) ==
    IF a > Len(pat[k].alts) THEN Fail
    ELSE LET w == pat[k].alts[a]
             r == IF pos + Len(w) - 1 <= Len(t)
                     /\ SameText(SubSeq(t, pos, pos + Len(w) - 1), w, ic)
                  THEN MatchFrom(t, pat, k + 1, pos + Len(w), ic)
                  ELSE Fail
         IN  IF r # Fail THEN <<pos + Len(w)>> \o r
             ELSE TryAlts(t, pat, k, pos, ic, a + 1)

RECURSIVE Chain(_, _), ChainFrom(_, _)
\* the matches in text order, each starting where the one before it ended or
\* later; found maps every position a match can start at to that match
Chain(found, from) ==
    IF \A i \in DOMAIN found : i < from THEN <<>>
    ELSE ChainFrom(found, CHOOSE x \in DOMAIN found :
                            x >= from /\ \A y \in DOMAIN found : y >= from => x <= y)

ChainFrom(found, i) ==
    <<[start |-> i, ends |-> found[i]]>> \o Chain(found, found[i][Len(found[i])])

\* The first item of the pattern that consumes text (after \b): a match
\* starts with a character of its class.
FirstClass(pat) ==
    pat[CHOOSE k \in 1..Len(pat) :
            /\ pat[k].k = "rep" /\ pat[k].min > 0
            /\ \A j \in 1..(k - 1) : pat[j].k = "b"].cls

\* re.finditer(pat, t): the leftmost matches, none overlapping another
AllMatches(t, pat, ic, starts) == [i \in starts |-> MatchFrom(t, pat, 1, i, ic)]

FindIter(t, pat, ic) ==
    Chain(AllMatches(t, pat, ic,
                     {i \in 1..Len(t) : /\ InClass(Ch(t, i), FirstClass(pat), ic)
                                        /\ MatchFrom(t, pat, 1, i, ic) # Fail}),
          1)

\* re.match(pat, t) is not None
Matches(t, pat) == MatchFrom(t, pat, 1, 1, FALSE) # Fail

\* match.group(0)
Whole(t, m) == SubSeq(t, m.start, m.ends[Len(m.ends)] - 1)

\* the text item k of the pattern matched (a group wraps one item)
Group(t, m, k) == SubSeq(t, m.ends[k - 1], m.ends[k] - 1)

----------------------------------------------------------------------------
(* Email Recognizer (scraper.py)                                           *)

\* r'\b[A-Za-z0-9._%+-]+@[A-Za-z0-9.-]+\.[A-Z|a-z]{2,}\b'
ScraperPattern1 ==
    <<B, AtLeast(LocalClass, 1), Lit(<<"@">>), AtLeast(DomainClass, 1),
      Lit(<<".">>), AtLeast(TldClass, 2), B>>

\* r'\b([A-Za-z0-9._%+-]+)\s*@\s*([A-Za-z0-9.-]+)\s*\.\s*([A-Z|a-z]{2,})\b'
ScraperPattern2 ==
    <<B, AtLeast(LocalClass, 1), AtLeast(SpaceClass, 0), Lit(<<"@">>),
      AtLeast(SpaceClass, 0), AtLeast(DomainClass, 1), AtLeast(SpaceClass, 0),
      Lit(<<".">>), AtLeast(SpaceClass, 0), AtLeast(TldClass, 2), B>>

\* r'\b([A-Za-z0-9._%+-]+)\s+(?:at|AT)\s+([A-Za-z0-9.-]+)\s+(?:dot|DOT)\s+([A-Z|a-z]{2,})\b'
ScraperPattern3 ==
    <<B, AtLeast(LocalClass, 1), AtLeast(SpaceClass, 1), Lit(<<"at", "AT">>),
      AtLeast(SpaceClass, 1), AtLeast(DomainClass, 1), AtLeast(SpaceClass, 1),
      Lit(<<"dot", "DOT">>), AtLeast(SpaceClass, 1), AtLeast(TldClass, 2), B>>

\* r'\b([A-Za-z0-9._%+-]+)\s*\[at\]\s*([A-Za-z0-9.-]+)\s*\[dot\]\s*([A-Z|a-z]{2,})\b'
ScraperPattern4 ==
    <<B, AtLeast(LocalClass, 1), AtLeast(SpaceClass, 0), Lit(<<"[at]">>),
      AtLeast(SpaceClass, 0), AtLeast(DomainClass, 1), AtLeast(SpaceClass, 0),
      Lit(<<"[dot]">>), AtLeast(SpaceClass, 0), AtLeast(TldClass, 2), B>>

\* f"{match.group(1)}@{match.group(2)}.{match.group(3)}" of every match
Rebuilt(t, ms) ==
    {Group(t, ms[i], 2) \o "@" \o Group(t, ms[i], 6) \o "." \o Group(t, ms[i], 10)
        : i \in 1..Len(ms)}

\* match.group(0) of every match
Wholes(t, ms) == {Whole(t, ms[i]) : i \in 1..Len(ms)}

\* email.split('@')[1]
AfterAt(e) ==
    LET ats == {i \in 1..Len(e) : Ch(e, i) = "@"}
        first == CHOOSE i \in ats : \A j \in ats : i <= j
        rest == ats \ {first}
        second == IF rest = {} THEN Len(e) + 1
                  ELSE CHOOSE i \in rest : \A j \in rest : i <= j
    IN  SubSeq(e, first + 1, second - 1)

CleanedKeepCase(found) ==
    {e \in {RemoveSpaces(x) : x \in found} :
        Contains(e, "@") /\ Contains(AfterAt(e), ".")}

\* the cleaning loop: strip all whitespace, lower-case, keep x@y with a dot in y
Cleaned(found) ==
    {e \in {LowerStr(RemoveSpaces(x)) : x \in found} :
        Contains(e, "@") /\ Contains(AfterAt(e), ".")}

\* extract_emails_from_text, as the set its returned list holds
extract_emails_from_text(text) ==
    IF text = None \/ text = "" THEN {}
    ELSE Cleaned(Wholes(text, FindIter(text, ScraperPattern1, FALSE))
                 \cup Rebuilt(text, FindIter(text, ScraperPattern2, FALSE))
                 \cup Rebuilt(text, FindIter(text, ScraperPattern3, FALSE))
                 \cup Rebuilt(text, FindIter(text, ScraperPattern4, TRUE)))

----------------------------------------------------------------------------
(* Email Recognizer (analyzer.py)                                          *)

\* r'\b[A-Za-z0-9._%+-]+@[A-Za-z0-9.-]+\.[A-Z|a-z]{2,}\b'
AnalyzerPattern1 ==
    <<B, AtLeast(LocalClass, 1), Lit(<<"@">>), AtLeast(DomainClass, 1),
      Lit(<<".">>), AtLeast(TldClass, 2), B>>

\* r'\b([A-Za-z0-9._%+-]+)\s*@\s*([A-Za-z0-9.-]+)\s*\.\s*([A-Z|a-z]{2,})\b'
AnalyzerPattern2 ==
    <<B, AtLeast(LocalClass, 1), AtLeast(SpaceClass, 0), Lit(<<"@">>),
      AtLeast(SpaceClass, 0), AtLeast(DomainClass, 1), AtLeast(SpaceClass, 0),
      Lit(<<".">>), AtLeast(SpaceClass, 0), AtLeast(TldClass, 2), B>>

AnalyzerPattern3AnyCase ==
    <<B, AtLeast(LocalClass, 1), AtLeast(SpaceClass, 1), Lit(<<"at", "AT", "At", "aT">>),
      AtLeast(SpaceClass, 1), AtLeast(DomainClass, 1), AtLeast(SpaceClass, 1),
      Lit(<<"dot", "DOT", "Dot", "dOT">>), AtLeast(SpaceClass, 1), AtLeast(TldClass, 2), B>>

\* r'\b([A-Za-z0-9._%+-]+)\s+(?:at|AT)\s+([A-Za-z0-9.-]+)\s+(?:dot|DOT)\s+([A-Z|a-z]{2,})\b'
AnalyzerPattern3 ==
    <<B, AtLeast(LocalClass, 1), AtLeast(SpaceClass, 1), Lit(<<"at", "AT">>),
      AtLeast(SpaceClass, 1), AtLeast(DomainClass, 1), AtLeast(SpaceClass, 1),
      Lit(<<"dot", "DOT">>), AtLeast(SpaceClass, 1), AtLeast(TldClass, 2), B>>

\* r'\b([A-Za-z0-9._%+-]+)\s*\[at\]\s*([A-Za-z0-9.-]+)\s*\[dot\]\s*([A-Z|a-z]{2,})\b'
AnalyzerPattern4 ==
    <<B, AtLeast(LocalClass, 1), AtLeast(SpaceClass, 0), Lit(<<"[at]">>),
      AtLeast(SpaceClass, 0), AtLeast(DomainClass, 1), AtLeast(SpaceClass, 0),
      Lit(<<"[dot]">>), AtLeast(SpaceClass, 0), AtLeast(TldClass, 2), B>>

\* extract_emails_regex, as the set its returned list holds
extract_emails_regex(text) ==
    IF text = None \/ text = "" THEN {}
    ELSE {e \in {LowerStr(RemoveSpaces(x)) :
                    x \in Wholes(text, FindIter(text, AnalyzerPattern1, FALSE))
                          \cup Rebuilt(text, FindIter(text, AnalyzerPattern2, FALSE))
                          \cup Rebuilt(text, FindIter(text, AnalyzerPattern3, FALSE))
                          \cup Rebuilt(text, FindIter(text, AnalyzerPattern4, TRUE))} :
            Contains(e, "@") /\ Contains(AfterAt(e), ".")}

----------------------------------------------------------------------------
(* Contact Consolidator (analyzer.py)                                      *)

\* r'^[\w\.\-\+]+@[\w\.\-]+\.\w{2,}$', given to re.match
SyntacticFilter ==
    <<AtLeast(FilterLocalClass, 1), Lit(<<"@">>),
      AtLeast(FilterDomainClass, 1), Lit(<<".">>),
      AtLeast(WordClass, 2), End>>

\* email.strip().lower()
Normalized(email) == LowerStr(Strip(email))

\* the candidates the loop adds to all_emails
Accepted(candidates) ==
    {Normalized(e) : e \in {c \in Range(candidates) :
        /\ c # ""
        /\ Contains(c, "@")
        /\ Matches(Normalized(c), SyntacticFilter)}}

\* the loop run over the first list only
normalize_and_dedup_emails_first_only(emails_page, emails_fichiers) ==
    SortedList(Accepted(emails_page))

\* only the first list filtered, the second added as it is
normalize_and_dedup_emails_second_raw(emails_page, emails_fichiers) ==
    SortedList(Accepted(emails_page) \cup Range(emails_fichiers))

normalize_and_dedup_emails(emails_page, emails_fichiers) ==
    SortedList(Accepted(emails_page \o emails_fichiers))

----------------------------------------------------------------------------
(* Document Extractors (scraper.py)                                        *)

MAX_FILE_CONTENT_LENGTH == 5000

\* pdf.pages[:20]
PDF_PAGE_CAP == 20

RECURSIVE Join(_, _)
\* sep.join(parts)
Join(parts, sep) ==
    IF parts = <<>> THEN ""
    ELSE IF Len(parts) = 1 THEN parts[1]
    ELSE parts[1] \o sep \o Join(Tail(parts), sep)

NonEmpty(x) == x # ""
NonBlank(x) == Strip(x) # ""

\* The bytes of a file are given by what the parser libraries read out of
\* them: its format, the page texts of a PDF, the paragraph and table-cell
\* texts of a DOCX, antiword's outcome and standard output for a DOC; "fault"
\* is an error the call meets instead ("none", "ImportError", "Exception").
\* A library handed bytes of another format fails.  An extractor returns
\* (text, emails); emails is given as the set the returned list holds.
NothingParsed == [text |-> "", emails |-> {}]

\* '\n'.join(text_parts) of the first 20 pages that have text
PdfFullText(file) ==
    LET pages == SubSeq(file.pages, 1,
                        IF Len(file.pages) < PDF_PAGE_CAP THEN Len(file.pages)
                        ELSE PDF_PAGE_CAP)
    IN  Join(SelectSeq(pages, NonEmpty), "\n")

\* full_text[:MAX_FILE_CONTENT_LENGTH] + "...[tronqué]" when full_text is
\* longer than the cap
Truncated(full_text) ==
    IF Len(full_text) > MAX_FILE_CONTENT_LENGTH
    THEN SubSeq(full_text, 1, MAX_FILE_CONTENT_LENGTH) \o "...[tronqué]"
    ELSE full_text

\* the emails are taken from the whole text, then the text is cut
EmailsThenCut(full_text) ==
    [text |-> Truncated(full_text), emails |-> extract_emails_from_text(full_text)]

\* the text is cut, then the emails are taken from what is left
CutThenEmails(full_text) ==
    [text |-> Truncated(full_text),
     emails |-> extract_emails_from_text(Truncated(full_text))]

\* parse_pdf_content with the emails looked for in the text already cut
parse_pdf_content_cut_first(file) ==
    IF file.fault # "none" \/ file.format # "pdf" THEN NothingParsed
    ELSE CutThenEmails(PdfFullText(file))

parse_pdf_content(file) ==
    IF file.fault # "none" \/ file.format # "pdf" THEN NothingParsed
    ELSE EmailsThenCut(PdfFullText(file))

\* '\n'.join(text_parts): the paragraphs, then the table cells, blank ones left out
DocxFullText(file) ==
    Join(SelectSeq(file.paragraphs, NonBlank) \o SelectSeq(file.cells, NonBlank), "\n")

parse_docx_content(file) ==
    IF file.fault # "none" \/ file.format # "docx" THEN NothingParsed
    ELSE EmailsThenCut(DocxFullText(file))

\* full_text after the antiword attempt.  file.antiword is "ok" (return code
\* 0), "nonzero", or "FileNotFoundError" (not installed: caught, the text
\* stays empty); on bytes that are no DOC antiword exits non-zero.
DocFullText(file) ==
    IF file.format = "doc" /\ file.antiword = "ok" THEN file.stdout ELSE ""

\* file.antiword = "TimeoutExpired" and a fault writing the temporary file are
\* caught by the outer handler.
parse_doc_content(file) ==
    IF file.fault # "none" \/ file.antiword = "TimeoutExpired" THEN NothingParsed
    ELSE IF DocFullText(file) # "" THEN EmailsThenCut(DocFullText(file))
    ELSE NothingParsed

TMP_PATH == "tmp.doc"

\* The temporary files parse_doc_content leaves behind.  os.unlink(tmp_path)
\* stands after the inner try statement, whose handler is for
\* FileNotFoundError only: when subprocess.run raises TimeoutExpired the outer
\* handler returns and the unlink is not reached.  A fault of the outer body
\* strikes before the file is created (nothing is left) or while it is
\* written (delete=False: the file stays).
TempFilesLeft(file) ==
    IF file.fault # "none" THEN {{}, {TMP_PATH}}
    ELSE IF file.antiword = "TimeoutExpired" THEN {{TMP_PATH}}
    ELSE {{}}

\* the dispatch on file_type of download_and_parse_attachment
ParseByType(file_type, file) ==
    IF file_type = "pdf" THEN parse_pdf_content(file)
    ELSE IF file_type = "docx" THEN parse_docx_content(file)
    ELSE IF file_type = "doc" THEN parse_doc_content(file)
    ELSE NothingParsed

----------------------------------------------------------------------------
(* Attachment Fetcher (scraper.py)                                         *)

\* requests.RequestException and its subclasses; every other error a try body
\* of the program can meet is an Exception too
RequestExceptions == {"Timeout", "ConnectionError", "HTTPError", "ChunkedEncodingError"}
Exceptions ==
    RequestExceptions
    \cup {"ValueError", "TypeError", "AttributeError", "ImportError",
          "APIError", "JSONDecodeError"}

IsDigits(s) == s # "" /\ \A i \in 1..Len(s) : Ch(s, i) \in CharsOf(DIGITS)

RECURSIVE StrToInt(_)
\* int(s) of a string of digits
StrToInt(s) ==
    IF s = "" THEN 0
    ELSE 10 * StrToInt(SubSeq(s, 1, Len(s) - 1))
         + (CHOOSE d \in 0..9 : Ch(DIGITS, d + 1) = Ch(s, Len(s)))

\* the limit taken for 10 MB in units of a thousand
MaxDownloadBytesDecimal == 10 * 1000 * 1000 * 10

\* 10 * 1024 * 1024
MaxDownloadBytes == 10 * 1024 * 1024

Effects(requested, body_read, extractors) ==
    [requested |-> requested, body_read |-> body_read, extractors |-> extractors]

\* The body of the try: exc is the error it ends with ("none" when it returns).
\* response is [get, status, content_length, read, body_bytes]: get and read
\* are "ok" or the error session.get / response.content raise; content_length
\* is "None" when the header is absent; body_bytes is the length of the body
\* the server sends, which the code never looks at.
DownloadTry(file_type, response, file) ==
    IF response.get # "ok"
    THEN [exc |-> response.get, ret |-> NothingParsed,
          eff |-> Effects(1, FALSE, <<>>)]
    ELSE IF response.status >= 400 /\ response.status < 600     \* raise_for_status
    THEN [exc |-> "HTTPError", ret |-> NothingParsed, eff |-> Effects(1, FALSE, <<>>)]
    ELSE IF response.content_length \notin {"None", ""}
            /\ ~IsDigits(response.content_length)
    THEN [exc |-> "ValueError", ret |-> NothingParsed, eff |-> Effects(1, FALSE, <<>>)]
    ELSE IF response.content_length \notin {"None", ""}
            /\ StrToInt(response.content_length) > MaxDownloadBytes
    THEN [exc |-> "none", ret |-> NothingParsed, eff |-> Effects(1, FALSE, <<>>)]
    ELSE IF response.read # "ok"
    THEN [exc |-> response.read, ret |-> NothingParsed, eff |-> Effects(1, TRUE, <<>>)]
    ELSE [exc |-> "none", ret |-> ParseByType(file_type, file),
          eff |-> Effects(1, TRUE, <<file_type>>)]

\* the handlers without the second clause
DownloadCaughtRequestOnly(exc) == exc \in RequestExceptions

\* except requests.RequestException / except Exception
DownloadCaught(exc) == exc \in RequestExceptions \/ exc \in Exceptions

\* [ret, raised, eff]: the pair returned, the error that leaves the function
\* ("none" when it returns) and what the call did on the network
\* what the try statement leaves, t being the outcome of its body
DownloadHandled(t) ==
    IF t.exc = "none" THEN [ret |-> t.ret, raised |-> "none", eff |-> t.eff]
    ELSE IF DownloadCaught(t.exc)
    THEN [ret |-> NothingParsed, raised |-> "none", eff |-> t.eff]
    ELSE [ret |-> NothingParsed, raised |-> t.exc, eff |-> t.eff]

download_and_parse_attachment(file_type, response, file) ==
    IF file_type \notin {"pdf", "doc", "docx"}
    THEN [ret |-> NothingParsed, raised |-> "none", eff |-> Effects(0, FALSE, <<>>)]
    ELSE DownloadHandled(DownloadTry(file_type, response, file))

----------------------------------------------------------------------------
(* Inputs                                                                  *)

MaxParts == 2

SeqsUpTo(S, n) == UNION {[1..k -> S] : k \in 0..n}

\* a run of characters no pattern can match, to reach the content cap
Filler(n) == Rep(",", n)

ShortTexts == {"", "a@x.org", "b@y.ma"}

\* the parts of a document (pages, paragraphs): short ones, and ones whose
\* text passes the content cap with an email before, across or after it
PartSeqs ==
    SeqsUpTo(ShortTexts, MaxParts)
    \cup {<<Filler(n)>> \o b : n \in {MAX_FILE_CONTENT_LENGTH - 4, MAX_FILE_CONTENT_LENGTH},
                              b \in SeqsUpTo(ShortTexts, 1)}
    \cup {<<"b@y.ma", Filler(MAX_FILE_CONTENT_LENGTH), "a@x.org">>,
          <<"a@x.org", Filler(MAX_FILE_CONTENT_LENGTH)>>}

File(format, pages, paragraphs, cells, stdout, antiword, fault) ==
    [format |-> format, pages |-> pages, paragraphs |-> paragraphs,
     cells |-> cells, stdout |-> stdout, antiword |-> antiword, fault |-> fault]

PdfFiles ==
    {File("pdf", p, <<>>, <<>>, "", "nonzero", "none") : p \in PartSeqs}
    \cup {File("pdf", <<"a@x.org">>, <<>>, <<>>, "", "nonzero", f)
            : f \in {"ImportError", "Exception"}}
    \cup {File("pdf", [i \in 1..(PDF_PAGE_CAP + 1) |->
                          IF i = 1 THEN "b@y.ma"
                          ELSE IF i = PDF_PAGE_CAP + 1 THEN "a@x.org" ELSE ""],
               <<>>, <<>>, "", "nonzero", "none")}

DocxFiles ==
    {File("docx", <<>>, p, c, "", "nonzero", "none")
        : p \in PartSeqs, c \in {<<>>, <<" ", "b@y.ma">>}}
    \cup {File("docx", <<>>, <<"a@x.org">>, <<>>, "", "nonzero", f)
            : f \in {"ImportError", "Exception"}}

DocFiles ==
    {File("doc", <<>>, <<>>, <<>>, Join(p, "\n"), "ok", "none")
        : p \in PartSeqs}
    \cup {File("doc", <<>>, <<>>, <<>>, "a@x.org", a, "none")
            : a \in {"nonzero", "FileNotFoundError", "TimeoutExpired"}}
    \cup {File("doc", <<>>, <<>>, <<>>, "a@x.org", "ok", "Exception")}

Files == PdfFiles \cup DocxFiles \cup DocFiles

----------------------------------------------------------------------------
(* The Document Extractors, each applied to a file                         *)

ExtractInit ==
    /\ pc = "start"
    /\ doc \in Files
    /\ parsed = None
    /\ posting = None /\ result = None /\ call = None /\ page = None
    /\ attached = None /\ req = None /\ resp = None /\ http = None /\ again = None
    /\ site = None /\ run = None /\ reported = None
    /\ disk = {}

Returned(by, r, q) == [by |-> by, text |-> r.text, emails |-> q]

ParsePdf ==
    /\ pc = "start"
    /\ \E r \in {parse_pdf_content(doc)} :
          \E q \in ListsOf(r.emails) : parsed' = Returned("pdf", r, q)
    /\ pc' = "done"
    /\ UNCHANGED <<posting, result, call, doc, page, attached, req, resp, http, again,
                 site, run, reported, disk>>

ParseDocx ==
    /\ pc = "start"
    /\ \E r \in {parse_docx_content(doc)} :
          \E q \in ListsOf(r.emails) : parsed' = Returned("docx", r, q)
    /\ pc' = "done"
    /\ UNCHANGED <<posting, result, call, doc, page, attached, req, resp, http, again,
                 site, run, reported, disk>>

ParseDoc ==
    /\ pc = "start"
    /\ \E r \in {parse_doc_content(doc)} :
          \E q \in ListsOf(r.emails) : parsed' = Returned("doc", r, q)
    /\ disk' \in {disk \cup left : left \in TempFilesLeft(doc)}
    /\ pc' = "done"
    /\ UNCHANGED <<posting, result, call, doc, page, attached, req, resp, http, again,
                 site, run, reported>>

ExtractNext == ParsePdf \/ ParseDocx \/ ParseDoc

ExtractSpec == ExtractInit /\ [][ExtractNext]_vars

\* the text the extractor that ran read out of the file, before any cut
FullTextRead ==
    IF parsed.by = "pdf" THEN PdfFullText(doc)
    ELSE IF parsed.by = "docx" THEN DocxFullText(doc)
    ELSE DocFullText(doc)

\* the extractor that ran was given a file of its format and met no error
Extracted ==
    /\ pc = "done"
    /\ parsed.by = doc.format
    /\ doc.fault = "none"
    /\ doc.antiword # "TimeoutExpired"

\* the address e stands in the text, on its own, from a position past the offset
StandsAfter(text, e, offset) ==
    \E i \in (offset + 1)..(Len(text) - Len(e) + 1) :
        /\ SubSeq(text, i, i + Len(e) - 1) = e
        /\ Ch(text, i - 1) \notin LocalClass
        /\ i + Len(e) - 1 = Len(text) \/ Ch(text, i + Len(e)) \notin DomainClass

\* C2: each Document Extractor (PDF, DOCX, DOC) reports every email that
\* stands after the content cap of a text longer than the cap, and returns the
\* text cut at the cap with the truncation marker.
C2_LosslessBeforeTruncation ==
    (Extracted /\ Len(FullTextRead) > MAX_FILE_CONTENT_LENGTH) =>
        /\ \A e \in {"a@x.org", "b@y.ma"} :
              StandsAfter(FullTextRead, e, MAX_FILE_CONTENT_LENGTH)
                  => e \in Range(parsed.emails)
        /\ parsed.text = SubSeq(FullTextRead, 1, MAX_FILE_CONTENT_LENGTH) \o "...[tronqué]"

\* the legacy DOC extractor returned an email that stands after the cap
C2_Witness ==
    /\ Extracted
    /\ parsed.by = "doc"
    /\ Len(FullTextRead) > MAX_FILE_CONTENT_LENGTH
    /\ StandsAfter(FullTextRead, "a@x.org", MAX_FILE_CONTENT_LENGTH)
    /\ "a@x.org" \in Range(parsed.emails)
    /\ Len(parsed.text) = MAX_FILE_CONTENT_LENGTH + 12

\* C30: parse_doc_content leaves no temporary file behind: when it returns,
\* whether the converter succeeded, exited non-zero, is not installed, timed
\* out, or another error occurred, the temporary .doc file it created is
\* deleted.
C30_NoTempFileLeft ==
    (pc = "done" /\ parsed.by = "doc") => disk = {}

----------------------------------------------------------------------------
(* The Attachment Fetcher, applied to one attachment                       *)

FileTypes == {"pdf", "doc", "docx", "xls", "autre"}

Responses ==
    [get : {"ok", "Timeout", "ConnectionError"},
     status : {200, 300, 404, 500},
     content_length : {"None", "", "abc", "1024", "10485760", "10485761", "99999999"},
     read : {"ok", "ChunkedEncodingError"},
     body_bytes : {1024, 10485761}]

FetchedFiles ==
    {File("pdf", <<"TDR", "tdr@alcs.ma">>, <<>>, <<>>, "", "nonzero", "none"),
     File("pdf", <<"a@x.org">>, <<>>, <<>>, "", "nonzero", "Exception"),
     File("docx", <<>>, <<"b@y.ma a@x.org">>, <<>>, "", "nonzero", "none"),
     File("doc", <<>>, <<>>, <<>>, "a@x.org", "ok", "none"),
     File("doc", <<>>, <<>>, <<>>, "a@x.org", "TimeoutExpired", "none")}

FetchInit ==
    /\ pc = "start"
    /\ req \in [file_type : FileTypes]
    /\ resp \in Responses
    /\ doc \in FetchedFiles
    /\ http = Effects(0, FALSE, <<>>)
    /\ parsed = None
    /\ posting = None /\ result = None /\ call = None /\ page = None
    /\ attached = None /\ again = None
    /\ site = None /\ run = None /\ reported = None /\ disk = None

Download ==
    /\ pc = "start"
    /\ \E o \in {download_and_parse_attachment(req.file_type, resp, doc)} :
          /\ \E q \in ListsOf(o.ret.emails) :
                parsed' = IF o.raised = "none"
                          THEN [text |-> o.ret.text, emails |-> q]
                          ELSE None
          /\ http' = o.eff
          /\ pc' = IF o.raised = "none" THEN "done" ELSE "raised"
    /\ UNCHANGED <<posting, result, call, doc, page, attached, req, resp, again,
                 site, run, reported, disk>>

FetchNext == Download

FetchSpec == FetchInit /\ [][FetchNext]_vars

Eligible == req.file_type \in {"pdf", "doc", "docx"}

\* the request, the reading of the body or the extraction met an error: a
\* timeout or a connection failure, a body that breaks off, a file its
\* extractor cannot read
TransferOrExtractorFailed ==
    \/ resp.get # "ok"
    \/ resp.read # "ok"
    \/ doc.fault # "none"
    \/ doc.format # req.file_type
    \/ doc.antiword = "TimeoutExpired"

\* the Content-Length header has a value and the value is no number
MalformedLength ==
    resp.content_length \notin {"None", ""} /\ ~IsDigits(resp.content_length)

DeclaredTooLarge ==
    /\ resp.get = "ok"
    /\ IsDigits(resp.content_length)
    /\ StrToInt(resp.content_length) > 10485760

\* C10: a response that declares a Content-Length above 10 MB gives empty
\* text and emails; its body is never read and no extractor is run.
C10_OversizeNotRead ==
    (pc = "done" /\ Eligible /\ DeclaredTooLarge) =>
        /\ parsed = [text |-> "", emails |-> <<>>]
        /\ ~http.body_read
        /\ http.extractors = <<>>

\* C11: a body of more than 10 MB that comes without a Content-Length header
\* is discarded: no extractor receives it, text and emails stay empty.
C11_OversizeBodyDiscarded ==
    (/\ pc = "done" /\ Eligible
     /\ resp.get = "ok" /\ resp.status = 200 /\ resp.read = "ok"
     /\ resp.content_length = "None"
     /\ resp.body_bytes > 10485760)
    => /\ parsed = [text |-> "", emails |-> <<>>]
       /\ http.extractors = <<>>

\* a good response of 10 MB + 1 byte for a file that would have parsed
C10_Witness ==
    /\ pc = "done" /\ Eligible /\ DeclaredTooLarge
    /\ resp.status = 200 /\ resp.read = "ok" /\ resp.content_length = "10485761"
    /\ doc.format = req.file_type /\ doc.fault = "none" /\ doc.antiword # "TimeoutExpired"
    /\ http.requested = 1 /\ ~http.body_read
    /\ parsed = [text |-> "", emails |-> <<>>]

----------------------------------------------------------------------------
(* Analysis and its fallback (analyzer.py)                                 *)

RECURSIVE ConcatAll(_)
\* the lists of a list, extended one after the other into one list
ConcatAll(lists) ==
    IF lists = <<>> THEN <<>> ELSE Head(lists) \o ConcatAll(Tail(lists))

\* f.get('emails_fichier', []) of every attachment, in order
EmailsFichiers(data) ==
    ConcatAll([i \in 1..Len(data.fichiers_attaches) |->
                  data.fichiers_attaches[i].emails_fichier])

\* sum(1 for f in fichiers if f.get('contenu_texte'))
NbParses(fichiers) == Cardinality({i \in 1..Len(fichiers) : fichiers[i].contenu_texte # ""})

\* texte[:200] + "..." if len(texte) > 200 else texte, then the annotation
FallbackResume(texte, fichiers) ==
    (IF Len(texte) > 200 THEN Prefix(texte, 200) \o "..." ELSE texte)
    \o (IF fichiers # <<>>
        THEN " (" \o IntToStr(Len(fichiers)) \o " fichier(s), "
             \o IntToStr(NbParses(fichiers)) \o " parsé(s))"
        ELSE "")

\* set(emails + emails_files)
FallbackEmails(data) ==
    extract_emails_regex(data.texte_complet) \cup Range(data.emails_from_files)

\* The records create_fallback_analysis can return: all_emails is
\* list(set(...)), a list of the set in an order of the interpreter's choosing.
create_fallback_analysis(data) ==
    {[organisation |-> data.organisation,
      emails |-> all_emails,
      secteur |-> "Autre",
      type_opportunite |-> "Non déterminé",
      localisation |-> "Non spécifié",
      resume |-> FallbackResume(data.texte_complet, data.fichiers_attaches),
      mots_cles |-> <<>>] : all_emails \in ListsOf(FallbackEmails(data))}

\* The body of the try of analyze_with_claude and of analyze_with_gemini, which
\* differ in the client they call only.  reply is what the model call comes
\* to: kind "json" with the object parsed from the response, or the error the
\* body ends with: "ImportError" (client library missing), "APIError" (the
\* call fails), "JSONDecodeError" (the response is no JSON), "AttributeError"
\* (the JSON is no object), "TypeError" (its emails are null).
AnalysisTry(data, reply) ==
    IF reply.kind # "json" THEN {[exc |-> reply.kind, ret |-> reply.json]}
    ELSE {[exc |-> "none",
           ret |-> [reply.json EXCEPT !.emails =
                       normalize_and_dedup_emails(emails_page \o EmailsFichiers(data),
                                                  reply.json.emails)]]
            : emails_page \in ListsOf(extract_emails_regex(data.texte_complet))}

\* a handler for the JSON error only
AnalysisCaughtJsonOnly(exc) == exc = "JSONDecodeError"

\* except Exception
AnalysisCaught(exc) == exc \in Exceptions

\* what the try statement leaves, t being an outcome of its body: [ret, raised]
AnalysisHandled(data, t) ==
    IF t.exc = "none" THEN {[ret |-> t.ret, raised |-> "none"]}
    ELSE IF AnalysisCaught(t.exc)
    THEN {[ret |-> f, raised |-> "none"] : f \in create_fallback_analysis(data)}
    ELSE {[ret |-> t.ret, raised |-> t.exc]}

analyze_with_gemini(data, reply) ==
    UNION {AnalysisHandled(data, t) : t \in AnalysisTry(data, reply)}

analyze_with_claude(data, reply) ==
    UNION {AnalysisHandled(data, t) : t \in AnalysisTry(data, reply)}

analyze_opportunity(data, reply, ai_type) ==
    IF ai_type = "claude" THEN analyze_with_claude(data, reply)
    ELSE analyze_with_gemini(data, reply)

----------------------------------------------------------------------------
(* The analysis of one posting                                             *)

MaxFiles == 2
MaxModelEmails == 2

RECURSIVE AllSubseq(_)
\* the subsequences of q
AllSubseq(q) ==
    IF q = <<>> THEN {<<>>}
    ELSE AllSubseq(Tail(q)) \cup {<<Head(q)>> \o r : r \in AllSubseq(Tail(q))}

\* the subsequences of q of at most n entries
Picks(q, n) == {r \in AllSubseq(q) : Len(r) <= n}

\* Page texts as scrape_detail_page leaves them (stripped, runs of spaces
\* collapsed): 200 and 201 characters long, to stand on both sides of the cut
\* of the fallback summary.
PageTexts ==
    {"", "Contact: a@x.org", "b@x.org a@x.org", "a%b@x.org",
     "Appel: a [at] x [dot] org",
     Filler(192) \o " a@x.org", Filler(193) \o " a@x.org"}

\* an attachment as extract_attachments records it
Attachment(nom, type, contenu_texte) ==
    [nom |-> nom, url |-> "https://tanmia.ma/" \o nom, type |-> type,
     contenu_texte |-> contenu_texte,
     emails_fichier |-> SortedList(extract_emails_from_text(contenu_texte))]

AttachmentSamples ==
    <<Attachment("TDR.pdf", "pdf", "TDR tdr@y.ma"),
      Attachment("budget.xls", "xls", ""),
      Attachment("avis.doc", "doc", "a@x.org")>>

\* The records scrape_detail_page returns: emails_from_files is
\* list(set(...)) of the emails of the attachments.
PostingRecords ==
    {[url |-> "https://tanmia.ma/appel",
      titre |-> "Appel",
      organisation |-> "À déterminer par IA",
      date |-> "Non spécifié",
      texte_complet |-> t,
      fichiers_attaches |-> fs,
      emails_from_files |-> ef]
        : t \in PageTexts,
          <<fs, ef>> \in {<<f, e>> \in Picks(AttachmentSamples, MaxFiles) \X
                              UNION {ListsOf(S) : S \in SUBSET {"tdr@y.ma", "a@x.org"}} :
                            Range(e) = Range(ConcatAll([i \in 1..Len(f) |-> f[i].emails_fichier]))}}

ModelEmails == <<"B@X.ORG", " a@x.org ", "a@x.c1", "aucun">>

\* the object a model reply parses to
ReplyJson(emails) ==
    [organisation |-> "ALCS", emails |-> emails, secteur |-> "Autre",
     type_opportunite |-> "Offre", localisation |-> "Non spécifié",
     resume |-> "Appel", mots_cles |-> <<>>]

Replies ==
    {[kind |-> "json", json |-> ReplyJson(e)] : e \in Picks(ModelEmails, MaxModelEmails)}
    \cup {[kind |-> k, json |-> ReplyJson(<<>>)]
            : k \in {"ImportError", "APIError", "JSONDecodeError", "TypeError"}}

Init ==
    /\ pc = "start"
    /\ posting \in PostingRecords
    /\ call \in [ai_type : {"claude", "gemini"}, reply : Replies]
    /\ result = None
    /\ doc = None /\ parsed = None /\ page = None /\ attached = None
    /\ req = None /\ resp = None /\ http = None /\ again = None
    /\ site = None /\ run = None /\ reported = None /\ disk = None

\* analyze_opportunity(data, api_key, ai_type)
Analyze ==
    /\ pc = "start"
    /\ \E o \in analyze_opportunity(posting, call.reply, call.ai_type) :
          /\ result' = IF o.raised = "none" THEN o.ret ELSE None
          /\ pc' = IF o.raised = "none" THEN "done" ELSE "raised"
    /\ UNCHANGED <<posting, call, doc, parsed, page, attached, req, resp, http, again,
                 site, run, reported, disk>>

Next == Analyze

Spec == Init /\ [][Next]_vars

\* the emails the page-regex pass finds in page_text
PageEmails == extract_emails_regex(posting.texte_complet)

\* the file emails of the posting
FileEmails == Range(posting.emails_from_files) \cup Range(EmailsFichiers(posting))

ModelFailed == call.reply.kind # "json"

\* C1: whatever the model call comes to, the emails of the result hold every
\* email the page-regex pass finds and every file email of the posting.
C1_UnionInvariant ==
    pc = "done" => (PageEmails \cup FileEmails) \subseteq Range(result.emails)

\* the summary of the fallback: the page text, cut to 200 characters with
\* "..." behind them when it is longer, and the annotation when there are
\* attachments
ExpectedResume ==
    LET t == posting.texte_complet
        fs == posting.fichiers_attaches
        parses == Cardinality({i \in DOMAIN fs : fs[i].contenu_texte # ""})
    IN  (IF Len(t) <= 200 THEN t ELSE SubSeq(t, 1, 200) \o "...")
        \o (IF Len(fs) = 0 THEN ""
            ELSE " (" \o IntToStr(Len(fs)) \o " fichier(s), "
                 \o IntToStr(parses) \o " parsé(s))")

\* C4: when the model call fails, the analysis does not raise and returns the
\* fallback record: seven fields, the organisation of the posting, the
\* page-regex emails united with the file emails, the three sentinels, no
\* keywords, and the summary cut from the page text with the annotation.
C4_FallbackRecord ==
    ModelFailed =>
        /\ pc # "raised"
        /\ pc = "done" =>
            /\ DOMAIN result = {"organisation", "emails", "secteur", "type_opportunite",
                                "localisation", "resume", "mots_cles"}
            /\ result.organisation = posting.organisation
            /\ Range(result.emails) = PageEmails \cup FileEmails
            /\ result.secteur = "Autre"
            /\ result.type_opportunite = "Non déterminé"
            /\ result.localisation = "Non spécifié"
            /\ result.mots_cles = <<>>
            /\ result.resume = ExpectedResume

\* the call failed on a posting of 201 characters with two attachments, one parsed
C4_Witness ==
    /\ pc = "done"
    /\ call.reply.kind = "APIError"
    /\ Len(posting.texte_complet) = 201
    /\ Len(posting.fichiers_attaches) = 2
    /\ result.resume = Filler(193) \o " a@x.or... (2 fichier(s), 1 parsé(s))"
    /\ Range(result.emails) = {"a@x.org", "tdr@y.ma"}

\* the candidates of the success path that pass the syntactic filter once
\* stripped and lower-cased, as they are then
PassingCandidates ==
    {LowerStr(Strip(c)) :
        c \in {x \in PageEmails \cup Range(EmailsFichiers(posting))
                     \cup Range(call.reply.json.emails) :
                 Matches(LowerStr(Strip(x)), SyntacticFilter)}}

Ascending(q) == \A i, j \in DOMAIN q : i < j => StrLess(q[i], q[j])

\* C5: when the model call succeeds, the emails of the result are exactly the
\* candidates (page-regex, attachment and model-reported) that pass the
\* syntactic filter once stripped and lower-cased, without duplicates, in
\* ascending order.
C5_SuccessEmails ==
    (pc = "done" /\ ~ModelFailed) =>
        /\ Range(result.emails) = PassingCandidates
        /\ Len(result.emails) = Cardinality(PassingCandidates)
        /\ Ascending(result.emails)

\* file email a@x.org and model email B@X.ORG gave [a@x.org, b@x.org]
C5_Witness ==
    /\ pc = "done" /\ ~ModelFailed
    /\ posting.texte_complet = ""
    /\ posting.emails_from_files = <<"a@x.org">>
    /\ call.reply.json.emails = <<"B@X.ORG">>
    /\ result.emails = <<"a@x.org", "b@x.org">>

\* C6: the emails of a result are without duplicates and in ascending order,
\* on the fallback path as on the model path.
C6_EmailsSortedOnBothPaths ==
    pc = "done" => Ascending(result.emails)

----------------------------------------------------------------------------
(* The consolidation applied to two lists, then to its own output, and the  *)
(* recognizers applied to its output                                        *)

MaxCandidates == 2

\* what a list handed to the consolidation can hold: addresses as they are
\* written, with capitals and blanks around, and words that are no address
Candidates == <<"a@x.org", " B@X.ORG ", "a@x.c1", "a@x_y.org", "aucun", "a%b@x.org">>

\* what stands between two entries of a list written out as text
Separators == {" ", ",", ", ", "\n"}

ConsolidateInit ==
    /\ pc = "start"
    /\ call \in [emails_page : Picks(Candidates, MaxCandidates),
                 emails_fichiers : Picks(Candidates, MaxCandidates)]
    /\ result = None /\ again = None /\ parsed = None
    /\ posting = None /\ doc = None /\ page = None /\ attached = None
    /\ req = None /\ resp = None /\ http = None
    /\ site = None /\ run = None /\ reported = None /\ disk = None

Consolidate ==
    /\ pc = "start"
    /\ result' = normalize_and_dedup_emails(call.emails_page, call.emails_fichiers)
    /\ pc' = "consolidated"
    /\ UNCHANGED <<posting, call, doc, parsed, page, attached, req, resp, http, again,
                 site, run, reported, disk>>

Reconsolidate ==
    /\ pc = "consolidated"
    /\ again' = normalize_and_dedup_emails(result, <<>>)
    /\ pc' = "reconsolidated"
    /\ UNCHANGED <<posting, result, call, doc, parsed, page, attached, req, resp, http,
                 site, run, reported, disk>>

Recognize ==
    /\ pc = "consolidated"
    /\ \E sep \in Separators :
          parsed' = [text |-> Join(result, sep),
                     scraper |-> extract_emails_from_text(Join(result, sep)),
                     analyzer |-> extract_emails_regex(Join(result, sep))]
    /\ pc' = "recognized"
    /\ UNCHANGED <<posting, result, call, doc, page, attached, req, resp, http, again,
                 site, run, reported, disk>>

ConsolidateNext == Consolidate \/ Reconsolidate \/ Recognize

ConsolidateSpec == ConsolidateInit /\ [][ConsolidateNext]_vars

\* C7: normalize_and_dedup_emails applied to its own output (and an empty
\* second list) returns the identical list.
C7_ConsolidationIdempotent ==
    pc = "reconsolidated" => again = result

\* two addresses, one with capitals and blanks, consolidated and consolidated again
C7_Witness ==
    /\ pc = "reconsolidated"
    /\ call.emails_page = <<" B@X.ORG ">>
    /\ call.emails_fichiers = <<"a@x.org", "aucun">>
    /\ result = <<"a@x.org", "b@x.org">>
    /\ again = <<"a@x.org", "b@x.org">>

\* C8: the recognizers, run on the text made of the entries of a consolidated
\* list, return exactly the entries of the list.
C8_RecognitionReturnsConsolidation ==
    pc = "recognized" =>
        /\ parsed.scraper = Range(result)
        /\ parsed.analyzer = Range(result)

----------------------------------------------------------------------------
(* Attachment Discoverer (scraper.py)                                      *)

BASE_URL == "https://tanmia.ma"

VALID_FILE_EXTENSIONS ==
    <<".pdf", ".doc", ".docx", ".xls", ".xlsx", ".ppt", ".pptx",
      ".zip", ".rar", ".odt", ".ods", ".odp">>

RECURSIVE UpperStr(_)
\* str.upper()
UpperStr(s) ==
    IF s = "" THEN "" ELSE UpperChar(Ch(s, 1)) \o UpperStr(SubSeq(s, 2, Len(s)))

\* An anchor of the page is [href, text, hooks]: its href attribute, its
\* text as get_text(strip=True) gives it, and the selectors of the fixed
\* list (class, container and download-attribute selectors) that select it.
CssSelectors ==
    <<"ul.post-attachments a", "ul.wp-block-file a", "div.wp-block-file a",
      "a.attachment-link", "a.wp-block-file__button",
      "div.elementor-widget-attachment a", "div.elementor-widget-icon-list a",
      "a.download-link", "a[download]">>

\* the selectors a[href$=ext] and a[href$=EXT] of every extension, in turn
SuffixSelectors ==
    ConcatAll([k \in 1..Len(VALID_FILE_EXTENSIONS) |->
                  <<[kind |-> "suffix", arg |-> VALID_FILE_EXTENSIONS[k]],
                    [kind |-> "suffix", arg |-> UpperStr(VALID_FILE_EXTENSIONS[k])]>>])

Selectors ==
    [k \in 1..Len(CssSelectors) |-> [kind |-> "css", arg |-> CssSelectors[k]]]
    \o SuffixSelectors

\* soup.select(selector) holds the anchor
Selects(selector, a_tag) ==
    IF selector.kind = "css" THEN selector.arg \in a_tag.hooks
    ELSE EndsWith(a_tag.href, selector.arg)

\* the anchors every selector selects, selector after selector, each time in
\* document order
Visits(soup) ==
    ConcatAll([k \in 1..Len(Selectors) |->
                  SelectSeq(soup, LAMBDA a_tag : Selects(Selectors[k], a_tag))])

RECURSIVE AfterLast(_, _)
\* s.split(c)[-1]
AfterLast(s, c) ==
    IF ~Contains(s, c) THEN s
    ELSE AfterLast(SubSeq(s, 2, Len(s)), c)

\* any(ext in href.lower() for ext in VALID_FILE_EXTENSIONS)
IsFile(href) ==
    \E k \in 1..Len(VALID_FILE_EXTENSIONS) :
        Contains(LowerStr(href), VALID_FILE_EXTENSIONS[k])

\* the first extension of the list that href.lower() holds, without its dot
TypeFichier(href) ==
    IF ~IsFile(href) THEN "autre"
    ELSE AfterLast(VALID_FILE_EXTENSIONS[
                       CHOOSE k \in 1..Len(VALID_FILE_EXTENSIONS) :
                           /\ Contains(LowerStr(href), VALID_FILE_EXTENSIONS[k])
                           /\ \A j \in 1..(k - 1) :
                                 ~Contains(LowerStr(href), VALID_FILE_EXTENSIONS[j])],
                   ".")

RECURSIVE BeforeFirst(_, _)
\* s.split(c)[0]
BeforeFirst(s, c) ==
    IF s = "" \/ Ch(s, 1) = c THEN "" ELSE Ch(s, 1) \o BeforeFirst(SubSeq(s, 2, Len(s)), c)

RECURSIVE Unquote(_)
\* urllib.parse.unquote, for the escapes of the blank and of é
Unquote(s) ==
    IF s = "" THEN ""
    ELSE IF StartsWith(s, "%20") THEN " " \o Unquote(SubSeq(s, 4, Len(s)))
    ELSE IF StartsWith(s, "%C3%A9") THEN "é" \o Unquote(SubSeq(s, 7, Len(s)))
    ELSE Ch(s, 1) \o Unquote(SubSeq(s, 2, Len(s)))

\* the name of the attachment: the text of the anchor, or the last segment of
\* href without its query when the text has fewer than 3 characters
Nom(a_tag) ==
    Strip(Prefix(IF Len(a_tag.text) < 3
                 THEN Unquote(BeforeFirst(AfterLast(a_tag.href, "/"), "?"))
                 ELSE a_tag.text,
                 100))

\* urllib.parse.urljoin(base, href) for a base without path and an href
\* without dot segments: an http(s) URL is kept, a //host/path takes the scheme
\* of the base, a /path its scheme and host, a relative path hangs under /
urljoin(base, href) ==
    IF StartsWith(href, "https://") \/ StartsWith(href, "http://") THEN href
    ELSE IF StartsWith(href, "//") THEN BeforeFirst(base, "/") \o href
    ELSE IF StartsWith(href, "/") THEN base \o href
    ELSE base \o "/" \o href

\* fichier_data before the download
FichierData(a_tag) ==
    [nom |-> Nom(a_tag),
     url |-> urljoin(BASE_URL, a_tag.href),
     type |-> TypeFichier(a_tag.href),
     contenu_texte |-> "",
     emails_fichier |-> <<>>]

\* the anchor is passed over: no href, an href met before, a fragment, a
\* script, or no extension of the list in it
Skipped(a_tag, seen_urls) ==
    \/ a_tag.href = ""
    \/ a_tag.href \in seen_urls
    \/ StartsWith(a_tag.href, "#")
    \/ StartsWith(a_tag.href, "javascript:")
    \/ ~IsFile(a_tag.href)

\* fichier_data once download_and_parse_attachment has returned o
WithContent(fichier_data, o) ==
    {[fichier_data EXCEPT !.contenu_texte = o.ret.text, !.emails_fichier = q]
        : q \in ListsOf(o.ret.emails)}

ShouldParseAnyToggle(parse_content, type_fichier) ==
    type_fichier \in {"pdf", "doc", "docx"}

\* the toggle is set and the type is one the extractors read
ShouldParse(parse_content, type_fichier) ==
    parse_content /\ type_fichier \in {"pdf", "doc", "docx"}

\* the requests made so far, once download_and_parse_attachment(url, ...) has
\* returned o: one more when it has called session.get, with the extractors
\* the body went to
Requested(requests, url, o) ==
    IF o.eff.requested = 0 THEN requests
    ELSE Append(requests, [url |-> url, extractors |-> o.eff.extractors])

DownloadedWhenParsed(acc, a_tag, o) ==
    {[fichiers |-> IF o.ret.text = "" THEN acc.fichiers ELSE Append(acc.fichiers, f),
      seen_urls |-> acc.seen_urls \cup {a_tag.href},
      requests |-> Requested(acc.requests, urljoin(BASE_URL, a_tag.href), o)]
        : f \in WithContent(FichierData(a_tag), o)}

\* acc after the anchor whose download returned o
Downloaded(acc, a_tag, o) ==
    {[fichiers |-> Append(acc.fichiers, f),
      seen_urls |-> acc.seen_urls \cup {a_tag.href},
      requests |-> Requested(acc.requests, urljoin(BASE_URL, a_tag.href), o)]
        : f \in WithContent(FichierData(a_tag), o)}

\* One turn of the inner loop.  acc is [fichiers, seen_urls, requests]:
\* requests lists the downloads requested, [url, extractors].  server is what
\* the site answers a download with, [response, file].
VisitAnchor(acc, a_tag, server, parse_content) ==
    IF Skipped(a_tag, acc.seen_urls) THEN {acc}
    ELSE IF ShouldParse(parse_content, TypeFichier(a_tag.href))
    THEN Downloaded(acc, a_tag,
                    download_and_parse_attachment(TypeFichier(a_tag.href),
                                                  server.response, server.file))
    ELSE {[fichiers |-> Append(acc.fichiers, FichierData(a_tag)),
           seen_urls |-> acc.seen_urls \cup {a_tag.href},
           requests |-> acc.requests]}

RECURSIVE VisitAll(_, _, _, _)
VisitAll(accs, visits, server, parse_content) ==
    IF visits = <<>> THEN accs
    ELSE VisitAll(UNION {VisitAnchor(acc, Head(visits), server, parse_content) : acc \in accs},
                  Tail(visits), server, parse_content)

\* the outcomes [fichiers, seen_urls, requests] of extract_attachments
extract_attachments(soup, server, parse_content) ==
    VisitAll({[fichiers |-> <<>>, seen_urls |-> {}, requests |-> <<>>]},
             Visits(soup), server, parse_content)

----------------------------------------------------------------------------
(* The Attachment Discoverer, applied to a detail page                     *)

MaxAnchors == 3

Anchor(href, text, hooks) == [href |-> href, text |-> text, hooks |-> hooks]

AnchorSamples ==
    <<Anchor("/a.pdf", "TDR", {"ul.post-attachments a"}),
      Anchor("https://tanmia.ma/a.pdf", "Termes", {}),
      Anchor("/avis%20final.docx", "", {"a[download]"}),
      Anchor("#", "Haut", {"a.download-link"}),
      Anchor("/a.pdf", "TDR", {}),
      Anchor("/budget.XLSX?v=2", "Budget", {}),
      Anchor("/plan.pptx", "Plan", {}),
      Anchor("/contact", "Contact", {"div.elementor-widget-icon-list a"})>>

GoodResponse ==
    [get |-> "ok", status |-> 200, content_length |-> "1024", read |-> "ok",
     body_bytes |-> 1024]

Servers ==
    {[response |-> GoodResponse,
      file |-> File("pdf", <<"TDR", "tdr@alcs.ma">>, <<>>, <<>>, "", "nonzero", "none")],
     [response |-> GoodResponse,
      file |-> File("doc", <<>>, <<>>, <<>>, "a@x.org b@y.ma", "ok", "none")],
     [response |-> GoodResponse,
      file |-> File("docx", <<>>, <<"Avis", "avis@alcs.ma">>, <<>>, "", "nonzero", "none")],
     [response |-> [GoodResponse EXCEPT !.status = 404],
      file |-> File("pdf", <<"TDR">>, <<>>, <<>>, "", "nonzero", "none")],
     [response |-> [GoodResponse EXCEPT !.get = "Timeout"],
      file |-> File("pdf", <<"TDR">>, <<>>, <<>>, "", "nonzero", "none")],
     [response |-> [GoodResponse EXCEPT !.read = "ChunkedEncodingError"],
      file |-> File("pdf", <<"TDR">>, <<>>, <<>>, "", "nonzero", "none")],
     [response |-> GoodResponse,
      file |-> File("pdf", <<"a@x.org">>, <<>>, <<>>, "", "nonzero", "Exception")],
     [response |-> GoodResponse,
      file |-> File("doc", <<>>, <<>>, <<>>, "a@x.org", "TimeoutExpired", "none")]}

DiscoverInit ==
    /\ pc = "start"
    /\ page \in Picks(AnchorSamples, MaxAnchors)
    /\ req \in [parse_content : BOOLEAN]
    /\ resp \in Servers
    /\ attached = None
    /\ http = <<>>
    /\ posting = None /\ result = None /\ call = None /\ doc = None
    /\ parsed = None /\ again = None
    /\ site = None /\ run = None /\ reported = None /\ disk = None

ExtractAttachments ==
    /\ pc = "start"
    /\ \E o \in extract_attachments(page, resp, req.parse_content) :
          /\ attached' = o.fichiers
          /\ http' = o.requests
    /\ pc' = "done"
    /\ UNCHANGED <<posting, result, call, doc, parsed, page, req, resp, again,
                 site, run, reported, disk>>

DiscoverNext == ExtractAttachments

DiscoverSpec == DiscoverInit /\ [][DiscoverNext]_vars

\* C3: the attachment list holds no two entries with the same resolved
\* absolute url.
C3_NoDuplicateUrls ==
    pc = "done" =>
        \A i, j \in 1..Len(attached) : attached[i].url = attached[j].url => i = j

\* the url ends with the extension ext, whatever the case
HasExtension(url, ext) == EndsWith(LowerStr(url), "." \o ext)

\* C12: an attachment whose url ends with an extension of the allow-list has
\* that extension as its kind (.docx gives docx, .xlsx xlsx, .pptx pptx), and
\* the body of a fetched attachment goes to the extractor of that format only.
C12_KindIsExtensionAndDispatch ==
    pc = "done" =>
        /\ \A i \in 1..Len(attached) :
              \A k \in 1..Len(VALID_FILE_EXTENSIONS) :
                 HasExtension(attached[i].url, AfterLast(VALID_FILE_EXTENSIONS[k], "."))
                 => attached[i].type = AfterLast(VALID_FILE_EXTENSIONS[k], ".")
        /\ \A i \in 1..Len(http) :
              \A t \in {"pdf", "doc", "docx"} :
                 HasExtension(http[i].url, t) => http[i].extractors \in {<<>>, <<t>>}

\* the attachment is one whose content the run reads
Parsable(fichier) == req.parse_content /\ fichier.type \in {"pdf", "doc", "docx"}

\* C13: a download is requested only for an attachment of kind pdf, doc or
\* docx and only with the parse toggle set; every other attachment comes back
\* with empty text, no emails and the name, url and kind discovered.
C13_RequestsOnlyWhenEligible ==
    pc = "done" =>
        /\ \A i \in 1..Len(http) :
              \E j \in 1..Len(attached) :
                 Parsable(attached[j]) /\ attached[j].url = http[i].url
        /\ Len(http) <= Len(SelectSeq(attached, Parsable))
        /\ \A j \in 1..Len(attached) :
              ~Parsable(attached[j]) =>
                 /\ attached[j].contenu_texte = ""
                 /\ attached[j].emails_fichier = <<>>
                 /\ \E k \in 1..Len(page) : attached[j] = FichierData(page[k])

\* a page with a pdf that is downloaded and a slide deck that is not
C13_Witness ==
    /\ pc = "done" /\ req.parse_content
    /\ Len(http) = 1 /\ Len(attached) = 2
    /\ \E j \in 1..2 : attached[j].type = "pdf" /\ attached[j].emails_fichier # <<>>
    /\ \E j \in 1..2 : attached[j].type = "ppt"

\* the attachment as it is discovered, before any download
Bare(fichier) == [fichier EXCEPT !.contenu_texte = "", !.emails_fichier = <<>>]

\* the attachments of the page when the toggle is off: no download is made
Unparsed ==
    CHOOSE fichiers \in {o.fichiers : o \in extract_attachments(page, resp, FALSE)} : TRUE

\* C28: the attachments returned for a page (how many, in which order, the
\* name, url and kind of each) are the same with the parse toggle set or not,
\* whatever a download or an extraction returns or fails with; only the text
\* and the emails of the attachments the run reads differ.
C28_ListIndependentOfParsing ==
    pc = "done" =>
        /\ Cardinality({o.fichiers : o \in extract_attachments(page, resp, FALSE)}) = 1
        /\ Len(attached) = Len(Unparsed)
        /\ \A j \in 1..Len(attached) :
              /\ Bare(attached[j]) = Unparsed[j]
              /\ ~Parsable(attached[j]) => attached[j] = Unparsed[j]

\* the toggle set, a pdf whose download times out before a slide deck: both
\* are listed, the pdf without text
C28_Witness ==
    /\ pc = "done" /\ req.parse_content
    /\ resp.response.get = "Timeout"
    /\ Len(http) = 1 /\ Len(attached) = 2
    /\ attached[1].type = "pdf" /\ attached[1].contenu_texte = ""
    /\ attached[2].type = "ppt"

----------------------------------------------------------------------------
(* The crawl: scrape_listing_page, scrape_detail_page, scrape_tanmia       *)

\* The entries of the log of a run: human_delay and session.get, for a
\* listing page, a detail page or an attachment.
Delay(what) == [op |-> "delay", what |-> what, url |-> ""]
Get(what, url) == [op |-> "get", what |-> what, url |-> url]

\* What a page request comes to is [get, status, fault, ...]: get is "ok" or
\* the error session.get raises, fault "none" or the error the parsing of
\* the page raises.  The error the try body ends with, "none" when it returns:
PageError(answer) ==
    IF answer.get # "ok" THEN answer.get
    ELSE IF answer.status >= 400 /\ answer.status < 600 THEN "HTTPError"
    ELSE answer.fault

\* the hrefs of the title links kept: not empty, not those of events
PostingHrefs(hrefs) ==
    SelectSeq(hrefs, LAMBDA href : href # "" /\ ~Contains(href, "/evenement/"))

ListingCaughtRequestOnly == RequestExceptions

\* except Exception
ListingCaught == Exceptions

\* The outcomes [ret, raised, events] of scrape_listing_page(url, session),
\* answer being [get, status, fault, hrefs]: hrefs are the hrefs of the title
\* links of the articles, in document order.
scrape_listing_page(url, answer) ==
    IF PageError(answer) = "none"
    THEN {[ret |-> q, raised |-> "none",
           events |-> <<Delay("listing"), Get("listing", url)>>]
            : q \in ListsOf(Range(PostingHrefs(answer.hrefs)))}
    ELSE {[ret |-> <<>>,
           raised |-> IF PageError(answer) \in ListingCaught
                      THEN "none" ELSE PageError(answer),
           events |-> <<Delay("listing"), Get("listing", url)>>]}

\* titre: the text of the first h1 that has one
Titre(h1) == IF h1 = "" THEN "Non spécifié" ELSE h1

\* date: the text of the date element, when it holds a digit and is short
Date(date_text) ==
    IF (\E i \in 1..Len(date_text) : Ch(date_text, i) \in CharsOf(DIGITS))
       /\ Len(date_text) < 50
    THEN date_text ELSE "Non spécifié"

TEXTE_COMPLET_CAP == 12000

TexteCompletUncut(texte) == Strip(texte)

\* texte_complet, of the text of the content zone with its blanks collapsed
TexteComplet(texte) ==
    IF Len(Strip(texte)) > TEXTE_COMPLET_CAP
    THEN Prefix(Strip(texte), TEXTE_COMPLET_CAP) \o "...[texte tronqué]"
    ELSE Strip(texte)

\* emails_from_files, before list(set(...))
EmailsFromFiles(fichiers_attaches) ==
    ConcatAll([i \in 1..Len(fichiers_attaches) |-> fichiers_attaches[i].emails_fichier])

UniquesNot(emails) == {emails}

\* list(set(emails_from_files))
Uniques(emails) == ListsOf(Range(emails))

\* the GETs of the downloads extract_attachments has requested
DownloadGets(requests) ==
    [i \in 1..Len(requests) |-> Get("attachment", requests[i].url)]

\* the outcome of scrape_detail_page when the try body returns: o is what
\* extract_attachments returned, emails_from_files the list made of its emails
DetailReturned(url, answer, o, emails_from_files) ==
    [ret |-> <<[url |-> url,
              titre |-> Titre(answer.h1),
              organisation |-> "À déterminer par IA",
              date |-> Date(answer.date_text),
              texte_complet |-> TexteComplet(answer.texte),
              fichiers_attaches |-> o.fichiers,
              emails_from_files |-> emails_from_files]>>,
     raised |-> "none",
     events |-> <<Delay("detail"), Get("detail", url)>> \o DownloadGets(o.requests)]

DetailCaughtRequestOnly == RequestExceptions

\* except Exception
DetailCaught == Exceptions

\* The outcomes [ret, raised, events] of scrape_detail_page(url, session,
\* parse_attachments); ret is the list of the record returned, empty for
\* None; answer is [get, status, fault, h1, date_text, texte,
\* soup, server]: soup holds the anchors of the page, server is what the site
\* answers the downloads with.
scrape_detail_page(url, answer, parse_attachments) ==
    IF PageError(answer) = "none"
    THEN UNION {{DetailReturned(url, answer, o, q)
                    : q \in Uniques(EmailsFromFiles(o.fichiers))}
                  : o \in extract_attachments(answer.soup, answer.server, parse_attachments)}
    ELSE {[ret |-> <<>>,
           raised |-> IF PageError(answer) \in DetailCaught
                      THEN "none" ELSE PageError(answer),
           events |-> <<Delay("detail"), Get("detail", url)>>]}

\* page_url
PageUrl(url_type, page_num) ==
    IF page_num = 1 THEN BASE_URL \o "/" \o url_type \o "/"
    ELSE BASE_URL \o "/" \o url_type \o "/" \o IntToStr(page_num) \o "/"

\* The values handed to progress_callback, as the fractions [num, den] the
\* floating-point expressions round: page_num / max_pages * 0.3 and
\* 0.3 + (idx / len(all_urls)) * 0.7
ListingProgress(page_num, max_pages) == [num |-> 3 * page_num, den |-> 10 * max_pages]

DetailProgressUnscaled(idx, total) == [num |-> 3 * total + 10 * idx, den |-> 10 * total]

DetailProgress(idx, total) == [num |-> 3 * total + 7 * idx, den |-> 10 * total]

\* if progress_callback: progress_callback(value, ...)
Report(values, progress_callback, value) ==
    IF progress_callback = None THEN values ELSE Append(values, value)

\* the position after the report: the call returns, or the error the
\* observer raises leaves scrape_tanmia, which has no handler around the call
AfterReport(progress_callback, position) ==
    IF progress_callback = "raises" THEN "observer_raised" ELSE position

DeduplicatedNot(all_urls) == {all_urls}

\* list(set(all_urls))
Deduplicated(all_urls) == ListsOf(Range(all_urls))

----------------------------------------------------------------------------
(* A run of scrape_tanmia                                                  *)

MaxPages == 2

PostingUrls ==
    {"https://tanmia.ma/appels-doffres/a/", "https://tanmia.ma/appels-doffres/b/"}

ListingAnswer(get, status, fault, hrefs) ==
    [get |-> get, status |-> status, fault |-> fault, hrefs |-> hrefs]

ListingAnswers ==
    {ListingAnswer("ConnectionError", 0, "none", <<>>),
     ListingAnswer("ok", 503, "none", <<>>),
     ListingAnswer("ok", 200, "TypeError", <<"https://tanmia.ma/appels-doffres/a/">>),
     ListingAnswer("ok", 200, "none",
                   <<"https://tanmia.ma/appels-doffres/a/",
                     "https://tanmia.ma/appels-doffres/b/">>),
     ListingAnswer("ok", 200, "none",
                   <<"https://tanmia.ma/evenement/e/", "",
                     "https://tanmia.ma/appels-doffres/b/">>)}

DetailAnswer(get, fault, h1, date_text, texte, soup) ==
    [get |-> get, status |-> 200, fault |-> fault, h1 |-> h1,
     date_text |-> date_text, texte |-> texte, soup |-> soup,
     server |-> [response |-> GoodResponse,
                 file |-> File("pdf", <<"TDR", "tdr@alcs.ma">>, <<>>, <<>>, "",
                               "nonzero", "none")]]

DetailAnswers ==
    {DetailAnswer("ok", "none", "Appel", "12 mars 2025", " Contact: a@x.org",
                  <<Anchor("/a.pdf", "TDR", {"ul.post-attachments a"}),
                    Anchor("/b.pdf", "Budget", {"a[download]"})>>),
     DetailAnswer("ok", "none", "", "bientôt", "", <<>>),
     DetailAnswer("Timeout", "none", "", "", "", <<>>),
     DetailAnswer("ok", "AttributeError", "Appel", "", "", <<>>)}

CrawlInit ==
    /\ pc = "listings"
    /\ req \in [url_type : {"appels-doffres"}, max_pages : 1..MaxPages,
                progress_callback : {None, "observer", "raises"},
                parse_attachments : BOOLEAN]
    /\ site \in [listing : [1..req.max_pages -> ListingAnswers],
                 detail : [PostingUrls -> DetailAnswers]]
    /\ run = [page_num |-> 0, all_urls |-> <<>>, idx |-> 0, results |-> <<>>]
    /\ http = <<>>
    /\ reported = <<>>
    /\ disk = None
    /\ posting = None /\ result = None /\ call = None /\ doc = None
    /\ parsed = None /\ page = None /\ attached = None /\ resp = None /\ again = None

\* one turn of the loop over the listing pages
ListingPage ==
    /\ pc = "listings"
    /\ run.page_num < req.max_pages
    /\ \E o \in scrape_listing_page(PageUrl(req.url_type, run.page_num + 1),
                                   site.listing[run.page_num + 1]) :
          /\ http' = http \o o.events
          /\ IF o.raised # "none"
             THEN pc' = "raised" /\ UNCHANGED <<run, reported, disk>>
             ELSE /\ run' = [run EXCEPT !.page_num = @ + 1, !.all_urls = @ \o o.ret]
                  /\ reported' = Report(reported, req.progress_callback,
                                        ListingProgress(run.page_num + 1, req.max_pages))
                  /\ pc' = AfterReport(req.progress_callback, pc)
    /\ UNCHANGED <<posting, result, call, doc, parsed, page, attached, req, resp, again, site, disk>>

\* all_urls = list(set(all_urls)), once the loop over the pages is over
Deduplicate ==
    /\ pc = "listings"
    /\ run.page_num = req.max_pages
    /\ \E q \in Deduplicated(run.all_urls) : run' = [run EXCEPT !.all_urls = q]
    /\ pc' = "details"
    /\ UNCHANGED <<posting, result, call, doc, parsed, page, attached, req, resp, again,
                   site, http, reported, disk>>

\* one turn of the loop over all_urls
DetailPage ==
    /\ pc = "details"
    /\ run.idx < Len(run.all_urls)
    /\ \E o \in scrape_detail_page(run.all_urls[run.idx + 1],
                                  site.detail[run.all_urls[run.idx + 1]],
                                  req.parse_attachments) :
          /\ http' = http \o o.events
          /\ IF o.raised # "none"
             THEN pc' = "raised" /\ UNCHANGED <<run, reported, disk>>
             ELSE /\ run' = [run EXCEPT !.idx = @ + 1, !.results = @ \o o.ret]
                  /\ reported' = Report(reported, req.progress_callback,
                                        DetailProgress(run.idx + 1, Len(run.all_urls)))
                  /\ pc' = AfterReport(req.progress_callback, pc)
    /\ UNCHANGED <<posting, result, call, doc, parsed, page, attached, req, resp, again, site, disk>>

\* return results
ReturnResults ==
    /\ pc = "details"
    /\ run.idx = Len(run.all_urls)
    /\ pc' = "done"
    /\ UNCHANGED <<posting, result, call, doc, parsed, page, attached, req, resp, again,
                   site, run, http, reported, disk>>

CrawlNext == ListingPage \/ Deduplicate \/ DetailPage \/ ReturnResults

CrawlSpec == CrawlInit /\ [][CrawlNext]_vars

\* the URLs of the GETs of one kind issued so far, in order
Fetched(what) ==
    LET gets == SelectSeq(http, LAMBDA e : e.op = "get" /\ e.what = what)
    IN  [i \in 1..Len(gets) |-> gets[i].url]

\* the detail page of the URL can be fetched and read
Succeeds(url) ==
    /\ site.detail[url].get = "ok"
    /\ site.detail[url].status \in 200..399
    /\ site.detail[url].fault = "none"

\* the listing page can be fetched and read
PageSucceeds(page_num) ==
    /\ site.listing[page_num].get = "ok"
    /\ site.listing[page_num].status \in 200..399
    /\ site.listing[page_num].fault = "none"

\* C14: every URL of the deduplicated list is handed to the detail crawler
\* exactly once, in the order of the list, whatever came of the URLs before it;
\* a URL that fails raises nothing and leaves no record, and the list returned
\* holds the records of the URLs that succeeded, in processing order.
C14_EveryUrlCrawledOnce ==
    /\ pc # "raised"
    /\ pc \in {"details", "done"} =>
          /\ Fetched("detail") = SubSeq(run.all_urls, 1, run.idx)
          /\ \A i, j \in 1..Len(run.all_urls) : run.all_urls[i] = run.all_urls[j] => i = j
          /\ [i \in 1..Len(run.results) |-> run.results[i].url]
                = SelectSeq(SubSeq(run.all_urls, 1, run.idx), Succeeds)
    /\ pc = "done" => run.idx = Len(run.all_urls)

\* the first of two URLs fails, the second gives the one record returned
C14_Witness ==
    /\ pc = "done"
    /\ Len(run.all_urls) = 2
    /\ ~Succeeds(run.all_urls[1])
    /\ Len(run.results) = 1
    /\ run.results[1].url = run.all_urls[2]
    /\ Fetched("detail") = run.all_urls

\* C15: the listing pages 1..max_pages are requested once each, in ascending
\* order, whatever came of the pages before; a page that fails gives nothing,
\* and the set handed to the detail phase holds the posting URLs of all the
\* pages that were read.
C15_EveryListingPageOnce ==
    /\ Fetched("listing")
          = [i \in 1..Len(Fetched("listing")) |-> PageUrl(req.url_type, i)]
    /\ pc # "raised" => Len(Fetched("listing")) = run.page_num
    /\ pc \in {"details", "done"} =>
          /\ run.page_num = req.max_pages
          /\ Range(run.all_urls)
                = {u \in PostingUrls :
                      \E i \in 1..req.max_pages :
                         PageSucceeds(i) /\ u \in Range(site.listing[i].hrefs)}
    /\ pc # "raised"

\* the first of two pages fails, the second gives the one URL of the run
C15_Witness ==
    /\ pc = "details"
    /\ req.max_pages = 2
    /\ site.listing[1].fault = "TypeError"
    /\ run.all_urls = <<"https://tanmia.ma/appels-doffres/b/">>
    /\ Len(Fetched("listing")) = 2

\* C16: no detail page is fetched before the last listing page has been
\* processed, and no posting URL is fetched twice in a run, even one that
\* several listing pages link.
C16_ListingsFirstAndNoRefetch ==
    /\ Fetched("detail") # <<>> => run.page_num = req.max_pages /\ pc # "listings"
    /\ \A i, j \in 1..Len(http) :
          (i < j /\ http[i].op = "get" /\ http[i].what = "detail")
          => ~(http[j].op = "get" /\ http[j].what = "listing")
    /\ \A i, j \in 1..Len(Fetched("detail")) :
          Fetched("detail")[i] = Fetched("detail")[j] => i = j

\* both pages link the same two postings, each fetched once
C16_Witness ==
    /\ pc = "done"
    /\ req.max_pages = 2
    /\ site.listing[1] = site.listing[2]
    /\ Len(site.listing[1].hrefs) = 2
    /\ Len(Fetched("detail")) = 2

\* the hrefs of the pages that were read, page after page, in document order
Discovered ==
    ConcatAll([i \in 1..req.max_pages |->
                  IF PageSucceeds(i) THEN site.listing[i].hrefs ELSE <<>>])

\* the place of the first discovery of the URL
Rank(url) ==
    CHOOSE k \in 1..Len(Discovered) :
        Discovered[k] = url /\ \A j \in 1..(k - 1) : Discovered[j] # url

\* C17: the detail pages are fetched in discovery order (by listing page,
\* then by position on the page), and the records returned stand in that order.
C17_DiscoveryOrder ==
    pc \in {"details", "done"} =>
        /\ \A i, j \in 1..Len(Fetched("detail")) :
              i < j => Rank(Fetched("detail")[i]) < Rank(Fetched("detail")[j])
        /\ \A i, j \in 1..Len(run.results) :
              i < j => Rank(run.results[i].url) < Rank(run.results[j].url)

\* C18: every GET (listing page, detail page, attachment download) comes
\* after a delay that follows the GET before it: no two GETs without a delay
\* between them.
C18_DelayBeforeEveryGet ==
    \A i \in 1..Len(http) :
        http[i].op = "get" => i > 1 /\ http[i - 1].op = "delay"

\* a <= b, for fractions [num, den] with positive denominators
FracLeq(a, b) == a.num * b.den <= b.num * a.den

\* C20: the values reported lie within 0.0 .. 1.0 and never decrease: one
\* after each listing page, page / max_pages * 0.3, then one after each
\* posting, 0.3 + idx / total * 0.7; the last one of a run that discovered a
\* posting URL is 1.0.
C20_ProgressMonotoneToOne ==
    /\ \A i \in 1..Len(reported) :
          /\ 0 <= reported[i].num /\ reported[i].num <= reported[i].den
          /\ i > 1 => FracLeq(reported[i - 1], reported[i])
          /\ i <= run.page_num => /\ reported[i] = ListingProgress(i, req.max_pages)
                                  /\ FracLeq(reported[i], [num |-> 3, den |-> 10])
          /\ i > run.page_num =>
                reported[i] = DetailProgress(i - run.page_num, Len(run.all_urls))
    /\ (req.progress_callback # None /\ pc # "raised")
          => Len(reported) = run.page_num + run.idx
    /\ (req.progress_callback # None /\ pc = "done" /\ run.all_urls # <<>>)
          => reported[Len(reported)].num = reported[Len(reported)].den

\* two pages and two postings reported, the last report being 1.0
C20_Witness ==
    /\ pc = "done"
    /\ Len(reported) = 4
    /\ reported[2] = [num |-> 6, den |-> 20]
    /\ reported[3] = [num |-> 13, den |-> 20]
    /\ reported[4] = [num |-> 20, den |-> 20]

----------------------------------------------------------------------------
(* The rows of the exported table                                          *)

\* what format_fichiers_attaches returns: ', '.join(set(...)) takes the
\* emails of the files in any order
format_fichiers_attaches(fichiers) ==
    IF fichiers = <<>>
    THEN {[noms |-> "", urls |-> "", count |-> 0, emails |-> "", nb_parses |-> 0]}
    ELSE {[noms |-> Join([i \in 1..Len(fichiers) |-> fichiers[i].nom], ", "),
           urls |-> Join([i \in 1..Len(fichiers) |-> fichiers[i].url], "\n"),
           count |-> Len(fichiers),
           emails |-> Join(q, ", "),
           nb_parses |-> Cardinality({i \in 1..Len(fichiers) :
                                         fichiers[i].contenu_texte # ""})]
            : q \in ListsOf(Range(ConcatAll([i \in 1..Len(fichiers) |->
                                                fichiers[i].emails_fichier])))}

format_email_column(emails) ==
    IF emails = <<>> THEN "" ELSE Join(SortedList(Range(emails)), ", ")

format_keywords_column(keywords) ==
    IF keywords = <<>> THEN "" ELSE Join(Prefix(keywords, 8), ", ")

AllEmailsPageOnly(emails_page, emails_from_files) == ListsOf(Range(emails_page))

\* all_emails = list(set(emails_page + emails_from_files))
AllEmails(emails_page, emails_from_files) ==
    ListsOf(Range(emails_page \o emails_from_files))

\* the rows one pair of the zip can give
merged_item(scraped, analysis) ==
    {[URL |-> scraped.url,
      Titre |-> scraped.titre,
      Date |-> scraped.date,
      Organisation |-> analysis.organisation,
      Email |-> format_email_column(all_emails),
      Secteur |-> analysis.secteur,
      Type |-> analysis.type_opportunite,
      Localisation |-> analysis.localisation,
      Resume |-> analysis.resume,
      Mots_cles |-> format_keywords_column(analysis.mots_cles),
      Fichiers |-> f.noms,
      Liens_Fichiers |-> f.urls,
      Nb_Fichiers |-> f.count,
      Emails_Fichiers |-> f.emails,
      Nb_Parses |-> f.nb_parses]
        : f \in format_fichiers_attaches(scraped.fichiers_attaches),
          all_emails \in AllEmails(analysis.emails, scraped.emails_from_files)}

RECURSIVE MergedUpTo(_, _, _)
\* merged after the first n turns of the loop over the zip
MergedUpTo(scraped_data, analysis_results, n) ==
    IF n = 0 THEN {<<>>}
    ELSE {Append(merged, item)
            : merged \in MergedUpTo(scraped_data, analysis_results, n - 1),
              item \in merged_item(scraped_data[n], analysis_results[n])}

\* zip stops at the end of the shorter list
merge_analysis_results(scraped_data, analysis_results) ==
    MergedUpTo(scraped_data, analysis_results,
               IF Len(scraped_data) < Len(analysis_results)
               THEN Len(scraped_data) ELSE Len(analysis_results))

----------------------------------------------------------------------------
(* The analysis phase of the application: the loop over scraped_data       *)

MaxPostings == 2

\* the record the application appends when analyze_opportunity raises
ErrorRecord(item) ==
    [organisation |-> "Erreur",
     emails |-> item.emails_from_files,
     secteur |-> "Autre",
     type_opportunite |-> "Non déterminé",
     localisation |-> "Non spécifié",
     resume |-> Prefix(item.texte_complet, 200),
     mots_cles |-> <<>>]

AppendAnalysisKeepLast(analysis_results, item, o) ==
    IF o.raised = "none" THEN <<o.ret>> ELSE <<ErrorRecord(item)>>

\* analysis_results after the try statement of one turn, o being the outcome
\* of analyze_opportunity(item, api_key, ai_type)
AppendAnalysis(analysis_results, item, o) ==
    IF o.raised = "none" THEN Append(analysis_results, o.ret)
    ELSE Append(analysis_results, ErrorRecord(item))

\* a posting whose PDF holds an address the analyzer's syntactic filter drops
FiltredOutPosting ==
    [url |-> "https://tanmia.ma/avis",
     titre |-> "Avis",
     organisation |-> "À déterminer par IA",
     date |-> "Non spécifié",
     texte_complet |-> "",
     fichiers_attaches |-> <<Attachment("contact.pdf", "pdf", "a%b@x.org")>>,
     emails_from_files |-> <<"a%b@x.org">>]

\* postings of scraped_data: two without attachments, two with a parsed PDF
ScrapedSamples ==
    {p \in PostingRecords :
        \/ /\ p.texte_complet \in {"Contact: a@x.org", "b@x.org a@x.org"}
           /\ p.fichiers_attaches = <<>>
        \/ /\ p.texte_complet = ""
           /\ p.fichiers_attaches = <<AttachmentSamples[1]>>}
    \cup {FiltredOutPosting}

\* what the model call comes to, posting by posting
LoopReplies ==
    {[kind |-> "json", json |-> ReplyJson(<<"B@X.ORG">>)],
     [kind |-> "APIError", json |-> ReplyJson(<<>>)],
     [kind |-> "TypeError", json |-> ReplyJson(<<>>)]}

AppInit ==
    /\ pc = "analysis"
    /\ \E n \in 1..MaxPostings :
          /\ run \in [scraped_data : [1..n -> ScrapedSamples], idx : {0},
                      analysis_results : {<<>>}]
          /\ call \in [ai_type : {"claude", "gemini"}, replies : [1..n -> LoopReplies]]
    /\ posting = None /\ result = None /\ doc = None /\ parsed = None
    /\ page = None /\ attached = None /\ req = None /\ resp = None
    /\ http = None /\ again = None /\ site = None /\ reported = None /\ disk = None

\* one turn of the loop
AnalyzeItem ==
    /\ pc = "analysis"
    /\ run.idx < Len(run.scraped_data)
    /\ \E o \in analyze_opportunity(run.scraped_data[run.idx + 1],
                                   call.replies[run.idx + 1], call.ai_type) :
          run' = [run EXCEPT !.idx = @ + 1,
                             !.analysis_results =
                                 AppendAnalysis(@, run.scraped_data[run.idx + 1], o)]
    /\ pc' = pc
    /\ UNCHANGED <<posting, result, call, doc, parsed, page, attached, req, resp, http,
                   again, site, reported, disk>>

\* st.session_state.analysis_results = analysis_results
StoreResults ==
    /\ pc = "analysis"
    /\ run.idx = Len(run.scraped_data)
    /\ pc' = "done"
    /\ UNCHANGED <<posting, result, call, doc, parsed, page, attached, req, resp, http,
                   again, site, run, reported, disk>>

\* the page runs again: if st.session_state.scraped_data, the table is built
DisplayResults ==
    /\ pc = "done"
    /\ run.scraped_data # <<>>
    /\ result' \in merge_analysis_results(run.scraped_data, run.analysis_results)
    /\ pc' = "displayed"
    /\ UNCHANGED <<posting, call, doc, parsed, page, attached, req, resp, http,
                   again, site, run, reported, disk>>

AppNext == AnalyzeItem \/ StoreResults \/ DisplayResults

AppSpec == AppInit /\ [][AppNext]_vars

RowEmails(i) ==
    Range(run.analysis_results[i].emails) \cup Range(run.scraped_data[i].emails_from_files)

\* C27: the table has one row per pair of a posting and its analysis, in
\* the order of the pairs, and the Email column of a row is the union of the
\* emails of the analysis and of the emails_from_files of the posting, without
\* duplicates, in ascending order, joined by a comma and a space: every
\* email of the files of a posting is in its row.
C27_RowPerPairEmailsUnion ==
    pc = "displayed" =>
        /\ Len(result) = Len(run.scraped_data)
        /\ Len(result) = Len(run.analysis_results)
        /\ \A i \in 1..Len(result) :
              /\ result[i].URL = run.scraped_data[i].url
              /\ result[i].Resume = run.analysis_results[i].resume
              /\ \E q \in ListsOf(RowEmails(i)) :
                    Ascending(q) /\ result[i].Email = Join(q, ", ")
              /\ \A e \in Range(run.scraped_data[i].emails_from_files) :
                    Contains(result[i].Email, e)

\* two postings; the analysis of the second one has dropped the address of
\* its file, and the row shows it, before the address the model reported
C27_Witness ==
    /\ pc = "displayed"
    /\ Len(result) = 2
    /\ run.scraped_data[1].url = "https://tanmia.ma/appel"
    /\ run.scraped_data[2] = FiltredOutPosting
    /\ run.analysis_results[2].emails = <<"b@x.org">>
    /\ result[2].Email = "a%b@x.org, b@x.org"
    /\ result[2].URL = "https://tanmia.ma/avis"

\* C21: reporting progress does not change the flow of the run: whatever the
\* observer does when called, the run that ends has fetched every listing
\* page and every posting URL and has returned its records, as it does
\* without an observer.
C21_ObserverNeverAffectsFlow ==
    pc \in {"done", "raised", "observer_raised"} =>
        /\ pc = "done"
        /\ Len(Fetched("listing")) = req.max_pages
        /\ Fetched("detail") = run.all_urls

----------------------------------------------------------------------------
(* The two Email Recognizers, applied to a text                            *)

\* A text that writes one address: the local part, the sign or word for "at",
\* the domain, the sign or word for "dot", the top-level label.
Written(local, at, dot, tld) ==
    [text |-> "Contact: " \o local \o at \o "alcs" \o dot \o tld \o ".",
     local |-> local, at |-> at, dot |-> dot, tld |-> tld]

AtForms == {"@", " @ ", " at ", " AT ", " At ", " aT ", "[at]", " [AT] "}

DotForms == {".", " . ", " dot ", " DOT ", " Dot ", " dOT ", "[dot]", " [Dot] "}

\* a text without the parts of a written address
Plain(text) == [text |-> text, local |-> "", at |-> "", dot |-> "", tld |-> ""]

RecognizerInputs ==
    {Written(local, at, dot, tld) :
        local \in {"jean", "J.Dupont"}, at \in AtForms, dot \in DotForms,
        tld \in {"ma", "m", "o|g"}}
    \cup {Plain(None), Plain(""), Plain("aucun contact"),
          Plain("a@x.org A@X.ORG a @ x . org"),
          Plain("A@X.Org\tb [at] y [dot] MA\na@x.org")}

RecognizeInit ==
    /\ pc = "start"
    /\ call \in RecognizerInputs
    /\ parsed = [scraper |-> <<>>, analyzer |-> <<>>]
    /\ posting = None /\ result = None /\ doc = None /\ page = None
    /\ attached = None /\ req = None /\ resp = None /\ http = None
    /\ again = None /\ site = None /\ run = None /\ reported = None /\ disk = None

\* extract_emails_from_text(text); the list returned is kept as <<list>>
ScraperRecognize ==
    /\ parsed.scraper = <<>>
    /\ \E q \in ListsOf(extract_emails_from_text(call.text)) :
          parsed' = [parsed EXCEPT !.scraper = <<q>>]
    /\ pc' = IF parsed.analyzer = <<>> THEN pc ELSE "done"
    /\ UNCHANGED <<posting, result, call, doc, page, attached, req, resp, http, again,
                   site, run, reported, disk>>

\* extract_emails_regex(text); the list returned is kept as <<list>>
AnalyzerRecognize ==
    /\ parsed.analyzer = <<>>
    /\ \E q \in ListsOf(extract_emails_regex(call.text)) :
          parsed' = [parsed EXCEPT !.analyzer = <<q>>]
    /\ pc' = IF parsed.scraper = <<>> THEN pc ELSE "done"
    /\ UNCHANGED <<posting, result, call, doc, page, attached, req, resp, http, again,
                   site, run, reported, disk>>

RecognizeNext == ScraperRecognize \/ AnalyzerRecognize

RecognizeSpec == RecognizeInit /\ [][RecognizeNext]_vars

\* the address is written with words, in some casing of "at" and of "dot"
WordObfuscated ==
    /\ call.at \in {" at ", " AT ", " At ", " aT "}
    /\ call.dot \in {" dot ", " DOT ", " Dot ", " dOT "}
    /\ call.tld = "ma"

\* the address the text writes, lower-cased
WrittenAddress == LowerStr(call.local) \o "@alcs." \o call.tld

\* C22: the form local at domain dot tld is recognized for every casing of
\* the words at and dot, and gives local@domain.tld in lower case.
C22_WordFormAnyCasing ==
    (pc = "done" /\ WordObfuscated) =>
        /\ WrittenAddress \in Range(parsed.scraper[1])
        /\ WrittenAddress \in Range(parsed.analyzer[1])

\* local part, "@", domain ending in a label of at least 2 characters
WellShaped(e) ==
    \E i \in 2..Len(e) :
        /\ Ch(e, i) = "@"
        /\ \E k \in (i + 2)..(Len(e) - 2) :
              Ch(e, k) = "." /\ \A j \in (k + 1)..Len(e) : Ch(e, j) # "."

\* C23: for every text the recognizer returns a collection without
\* duplicates whose elements are lower-case, hold no whitespace and have the
\* shape local@domain.label with a label of 2 characters or more; for an empty
\* text or None it returns the empty collection.
C23_RecognizerOutputShape ==
    parsed.scraper # <<>> =>
        /\ \A i, j \in 1..Len(parsed.scraper[1]) :
              parsed.scraper[1][i] = parsed.scraper[1][j] => i = j
        /\ \A i \in 1..Len(parsed.scraper[1]) :
              /\ parsed.scraper[1][i] = LowerStr(parsed.scraper[1][i])
              /\ parsed.scraper[1][i] = RemoveSpaces(parsed.scraper[1][i])
              /\ WellShaped(parsed.scraper[1][i])
        /\ call.text \in {None, ""} => parsed.scraper[1] = <<>>

\* a text that writes one address three ways and another in brackets
C23_Witness ==
    /\ parsed.scraper # <<>>
    /\ call.text = "A@X.Org\tb [at] y [dot] MA\na@x.org"
    /\ parsed.scraper[1] = <<"b@y.ma", "a@x.org">>

\* C29: the recognizer of the scraper and the recognizer of the analyzer
\* return the same set of emails for every text.
C29_RecognizersAgree ==
    pc = "done" => Range(parsed.scraper[1]) = Range(parsed.analyzer[1])

\* both recognizers on a text with a word form and on one with signs
C29_Witness ==
    /\ pc = "done"
    /\ call.at = " AT " /\ call.dot = " DOT " /\ call.tld = "ma" /\ call.local = "J.Dupont"
    /\ parsed.scraper = <<<<"j.dupont@alcs.ma">>>>
    /\ parsed.analyzer = <<<<"j.dupont@alcs.ma">>>>

----------------------------------------------------------------------------
(* The Content Merger (analyzer.py): merge_all_content and the payload     *)

MERGE_FILE_CAP == 4000
TEXTE_UNIFIE_CAP == 12000

\* the parts of the page: the label and the text, when there is text
PageParts(texte_page) ==
    IF texte_page = "" THEN <<>> ELSE <<"=== CONTENU PAGE WEB ===", texte_page>>

FilePartsUncut(f) ==
    IF f.contenu_texte = "" THEN <<>>
    ELSE <<"\n=== FICHIER: " \o f.nom \o " ===", f.contenu_texte>>

\* the parts of one attachment: the label and the text, cut when longer than
\* the cap; nothing when it has no text
FileParts(f) ==
    IF f.contenu_texte = "" THEN <<>>
    ELSE <<"\n=== FICHIER: " \o f.nom \o " ===",
           IF Len(f.contenu_texte) > MERGE_FILE_CAP
           THEN Prefix(f.contenu_texte, MERGE_FILE_CAP) \o "...[tronqué]"
           ELSE f.contenu_texte>>

merge_all_content(data) ==
    Join(PageParts(data.texte_complet)
         \o ConcatAll([i \in 1..Len(data.fichiers_attaches) |->
                          FileParts(data.fichiers_attaches[i])]),
         "\n\n")

\* texte_unifie, as the prompt holds it
Limited(texte_unifie) ==
    IF Len(texte_unifie) > TEXTE_UNIFIE_CAP
    THEN Prefix(texte_unifie, TEXTE_UNIFIE_CAP) \o "...[tronqué]"
    ELSE texte_unifie

\* Postings to merge: page texts empty, short, and long enough to pass the
\* cap with the label; attachments without text, with a short text, with a
\* text of the cap and one character more.
MergePageTexts == {"", "Appel a@x.org", Filler(TEXTE_UNIFIE_CAP)}

MergeAttachment(nom, contenu_texte) ==
    [nom |-> nom, url |-> "https://tanmia.ma/" \o nom, type |-> "pdf",
     contenu_texte |-> contenu_texte, emails_fichier |-> <<>>]

MergeAttachments ==
    {MergeAttachment("vide.pdf", ""),
     MergeAttachment("TDR.pdf", "TDR tdr@y.ma"),
     MergeAttachment("plein.pdf", Filler(MERGE_FILE_CAP)),
     MergeAttachment("long.pdf", Filler(MERGE_FILE_CAP + 1))}

MergeInit ==
    /\ pc = "start"
    /\ posting \in [url : {"https://tanmia.ma/appel"}, titre : {"Appel"},
                    organisation : {"À déterminer par IA"}, date : {"Non spécifié"},
                    texte_complet : MergePageTexts,
                    fichiers_attaches : SeqsUpTo(MergeAttachments, MaxFiles),
                    emails_from_files : {<<>>}]
    /\ parsed = None
    /\ result = None /\ call = None /\ doc = None /\ page = None
    /\ attached = None /\ req = None /\ resp = None /\ http = None
    /\ again = None /\ site = None /\ run = None /\ reported = None /\ disk = None

\* texte_unifie = merge_all_content(data), then the limit
BuildPayload ==
    /\ pc = "start"
    /\ parsed' = [merged |-> merge_all_content(posting),
                  texte_unifie |-> Limited(merge_all_content(posting))]
    /\ pc' = "done"
    /\ UNCHANGED <<posting, result, call, doc, page, attached, req, resp, http, again,
                   site, run, reported, disk>>

MergeNext == BuildPayload

MergeSpec == MergeInit /\ [][MergeNext]_vars

\* the labeled section of every attachment that has text, in the order of
\* the list, each text cut to 4000 characters and the marker when longer
ExpectedFileSections ==
    ConcatAll([i \in 1..Len(posting.fichiers_attaches) |->
        IF posting.fichiers_attaches[i].contenu_texte = "" THEN <<>>
        ELSE <<"\n=== FICHIER: " \o posting.fichiers_attaches[i].nom \o " ===",
               IF Len(posting.fichiers_attaches[i].contenu_texte) <= 4000
               THEN posting.fichiers_attaches[i].contenu_texte
               ELSE SubSeq(posting.fichiers_attaches[i].contenu_texte, 1, 4000)
                    \o "...[tronqué]">>])

\* the payload is the text merged, or its first 12000 characters and the marker
PayloadBounded ==
    /\ Len(parsed.texte_unifie) <= 12000 + Len("...[tronqué]")
    /\ parsed.texte_unifie =
          IF Len(parsed.merged) <= 12000 THEN parsed.merged
          ELSE SubSeq(parsed.merged, 1, 12000) \o "...[tronqué]"

\* C24 as stated: the payload is the labeled page section first, then the
\* labeled section of every attachment with text, in discovery order, each
\* text cut to 4000 characters and the marker; the payload handed over is at
\* most 12000 characters and the marker.
C24_PageSectionThenFiles ==
    pc = "done" =>
        /\ parsed.merged
              = Join(<<"=== CONTENU PAGE WEB ===", posting.texte_complet>>
                     \o ExpectedFileSections, "\n\n")
        /\ PayloadBounded

\* C24 amended: the same, the page section standing first when the page has
\* text and being left out when it has none.
C24_PageSectionWhenText ==
    pc = "done" =>
        /\ parsed.merged
              = Join((IF posting.texte_complet = "" THEN <<>>
                      ELSE <<"=== CONTENU PAGE WEB ===", posting.texte_complet>>)
                     \o ExpectedFileSections, "\n\n")
        /\ PayloadBounded

\* a page with text, an attachment without text left out, one cut at 4000
C24_Witness ==
    /\ pc = "done"
    /\ posting.texte_complet = "Appel a@x.org"
    /\ Len(posting.fichiers_attaches) = 2
    /\ posting.fichiers_attaches[1].nom = "vide.pdf"
    /\ posting.fichiers_attaches[2].nom = "long.pdf"
    /\ parsed.texte_unifie
          = "=== CONTENU PAGE WEB ===\n\nAppel a@x.org\n\n\n=== FICHIER: long.pdf ===\n\n"
            \o Filler(4000) \o "...[tronqué]"

----------------------------------------------------------------------------
(* The construction of one PostingRecord: scrape_detail_page on a page     *)

\* Pages: the text of the content zone short, to be stripped, of the cap and
\* one character more; anchors of a PDF, a DOC and a spreadsheet.
DetailTexts ==
    {"Appel a@x.org", " Appel ", Filler(TEXTE_COMPLET_CAP), Filler(TEXTE_COMPLET_CAP + 1)}

DetailSoups ==
    {<<>>,
     <<Anchor("/a.pdf", "TDR", {"ul.post-attachments a"})>>,
     <<Anchor("/a.pdf", "TDR", {}), Anchor("/old.doc", "Avis", {})>>,
     <<Anchor("/budget.xls", "Budget", {}), Anchor("/old.doc", "Avis", {}),
       Anchor("/a.pdf", "TDR", {})>>}

\* what the downloads are answered with: a PDF short, of the content cap,
\* and longer with emails around the cut; a DOC longer than the cap; an error
DetailServers ==
    {[response |-> GoodResponse,
      file |-> File("pdf", <<"TDR", "tdr@alcs.ma">>, <<>>, <<>>, "", "nonzero", "none")],
     [response |-> GoodResponse,
      file |-> File("pdf", <<Filler(MAX_FILE_CONTENT_LENGTH)>>, <<>>, <<>>, "",
                    "nonzero", "none")],
     [response |-> GoodResponse,
      file |-> File("pdf", <<"b@y.ma", Filler(MAX_FILE_CONTENT_LENGTH), "a@x.org">>,
                    <<>>, <<>>, "", "nonzero", "none")],
     [response |-> GoodResponse,
      file |-> File("doc", <<>>, <<>>, <<>>,
                    "a@x.org " \o Filler(MAX_FILE_CONTENT_LENGTH) \o " tdr@alcs.ma",
                    "ok", "none")],
     [response |-> [GoodResponse EXCEPT !.status = 404],
      file |-> File("pdf", <<"TDR", "tdr@alcs.ma">>, <<>>, <<>>, "", "nonzero", "none")]}

DetailInit ==
    /\ pc = "start"
    /\ req \in [url : {"https://tanmia.ma/appels-doffres/a/"},
                parse_attachments : BOOLEAN]
    /\ resp \in [get : {"ok", "Timeout"}, status : {200}, fault : {"none"},
                 h1 : {"Appel"}, date_text : {"12 mars 2025"},
                 texte : DetailTexts, soup : DetailSoups, server : DetailServers]
    /\ posting = None /\ http = <<>>
    /\ result = None /\ call = None /\ doc = None /\ parsed = None
    /\ page = None /\ attached = None /\ again = None
    /\ site = None /\ run = None /\ reported = None /\ disk = None

\* scrape_detail_page(url, session, parse_attachments); posting is the list
\* of the record returned, empty for None
ScrapeDetail ==
    /\ pc = "start"
    /\ \E o \in scrape_detail_page(req.url, resp, req.parse_attachments) :
          /\ posting' = o.ret
          /\ http' = o.events
          /\ pc' = IF o.raised = "none" THEN "done" ELSE "raised"
    /\ UNCHANGED <<result, call, doc, parsed, page, attached, req, resp, again,
                   site, run, reported, disk>>

DetailNext == ScrapeDetail

DetailSpec == DetailInit /\ [][DetailNext]_vars

\* the text the extractor of the type reads out of the file served
ServedText(type) ==
    IF type = "pdf" THEN PdfFullText(resp.server.file)
    ELSE IF type = "docx" THEN DocxFullText(resp.server.file)
    ELSE DocFullText(resp.server.file)

\* the text is whole when within the cap, else cut at the cap with the marker
Capped(text, whole, cap, marker) ==
    IF Len(whole) <= cap THEN text = whole
    ELSE text = SubSeq(whole, 1, cap) \o marker

\* C25: in every record produced the page text is the page content, whole
\* when within 12000 characters and else its first 12000 characters and the
\* marker; the text of every attachment is the document content, whole when
\* within 5000 characters and else its first 5000 characters and the marker.
C25_ContentCaps ==
    (pc = "done" /\ posting # <<>>) =>
        /\ Capped(posting[1].texte_complet, Strip(resp.texte), 12000, "...[texte tronqué]")
        /\ \A i \in 1..Len(posting[1].fichiers_attaches) :
              posting[1].fichiers_attaches[i].contenu_texte # "" =>
                 Capped(posting[1].fichiers_attaches[i].contenu_texte,
                        ServedText(posting[1].fichiers_attaches[i].type),
                        5000, "...[tronqué]")

\* a page one character over its cap with a PDF and a DOC, the DOC over its cap
C25_Witness ==
    /\ pc = "done" /\ posting # <<>>
    /\ Len(resp.texte) = 12001
    /\ Len(posting[1].texte_complet) = 12000 + Len("...[texte tronqué]")
    /\ Len(posting[1].fichiers_attaches) = 2
    /\ posting[1].fichiers_attaches[2].type = "doc"
    /\ Len(posting[1].fichiers_attaches[2].contenu_texte) = 5000 + Len("...[tronqué]")

\* the entry of the log is a GET of the kind
IsGet(i, what) == http[i].op = "get" /\ http[i].what = what

\* the detail GET the download at place j of the log follows
Owner(j) ==
    CHOOSE i \in 1..(j - 1) :
        IsGet(i, "detail") /\ \A m \in (i + 1)..(j - 1) : ~IsGet(m, "detail")

\* the urls of the attachments downloaded for the record
DownloadedUrls(record) ==
    {record.fichiers_attaches[i].url : i \in
        {k \in 1..Len(record.fichiers_attaches) :
            req.parse_attachments
            /\ record.fichiers_attaches[k].type \in {"pdf", "doc", "docx"}}}

\* C26: the file emails of a record are the union, without duplicates, of the
\* emails of all the attachments of its list, every download of the posting
\* having been made before; every download follows the detail GET of its own
\* posting, before the detail GET of the next posting.
C26_FileEmailsAfterDownloads ==
    /\ \A n \in 1..Len(run.results) :
          /\ \A i, j \in 1..Len(run.results[n].emails_from_files) :
                run.results[n].emails_from_files[i] = run.results[n].emails_from_files[j]
                => i = j
          /\ Range(run.results[n].emails_from_files)
                = UNION {Range(run.results[n].fichiers_attaches[k].emails_fichier)
                            : k \in 1..Len(run.results[n].fichiers_attaches)}
          /\ \E i \in 1..Len(http) :
                /\ IsGet(i, "detail") /\ http[i].url = run.results[n].url
                /\ {http[j].url : j \in {m \in 1..Len(http) :
                                           IsGet(m, "attachment") /\ Owner(m) = i}}
                      = DownloadedUrls(run.results[n])
    /\ \A j \in 1..Len(http) :
          IsGet(j, "attachment") =>
             /\ \E i \in 1..(j - 1) : IsGet(i, "detail")
             /\ \E n \in 1..Len(run.results) :
                   /\ run.results[n].url = http[Owner(j)].url
                   /\ http[j].url \in DownloadedUrls(run.results[n])

\* two postings, each with two PDFs that hold the same email, downloaded
\* between the detail GET of the posting and that of the next
C26_Witness ==
    /\ pc = "done"
    /\ Len(run.results) = 2
    /\ \A n \in 1..2 :
          /\ Len(run.results[n].fichiers_attaches) = 2
          /\ run.results[n].emails_from_files = <<"tdr@alcs.ma">>
    /\ Len(Fetched("attachment")) = 4
    /\ IsGet(8, "detail") /\ IsGet(9, "attachment") /\ IsGet(10, "attachment")

=============================================================================
